---------------------------- MODULE Spec2Model ----------------------------
(***************************************************************************)
(* Lantern device control: the device abstraction (base.py), the UPnP and  *)
(* Roku adapters (protocols/upnp.py, adapters/roku.py) and the discovery   *)
(* engine (discovery.py); the device cache of tools/control.py; and the    *)
(* local services: Wi-Fi QR data (services/qr.py), Wake-on-LAN packets     *)
(* (services/wol.py), the saved devices (config.py) and the file server    *)
(* (services/http_server.py).                                              *)
(*                                                                         *)
(* Python values are tagged records, None is the empty tuple and an        *)
(* optional value x is the one-element tuple <<x>>.  Every method is an    *)
(* operator that threads a "frame" [dev, reqs, ret, exc] through the       *)
(* statements of the method: dev is the device object, reqs the requests   *)
(* put on the wire so far, ret the returned value and exc the exception    *)
(* that escaped (<<>> when none did).                                      *)
(***************************************************************************)
EXTENDS Integers, Sequences, FiniteSets, TLC

VARIABLES
    disc,       \* the DiscoveredDevice record handed to get_device_adapter
    dev,        \* the device object built from it (NoDevice before / None)
    last,       \* the last call made on the device, with its outcome
    loop,       \* discover_all: the event loop (ready queue, clock)
    probe,      \* discover_all: the two SSDP probe tasks
    found,      \* discover_all: its outcome
    cache,      \* tools/control.py: _device_cache
    cmd,        \* tools/control.py: the last command run and what it returned
    calc,       \* a call of a pure function: its arguments and its result
    cfg,        \* config.py: the ConfigManager, its devices file, its last call
    srv         \* services/http_server.py: a FileServer and its clients

vars == <<disc, dev, last, loop, probe, found, cache, cmd, calc, cfg, srv>>
control == <<disc, dev, last>>
discovery == <<loop, probe, found>>
tools == <<cache, cmd, calc>>
cfgsrv == <<cfg, srv>>

----------------------------------------------------------------------------
(* Bounds *)

\* number of successful connect() calls explored on one device object
MaxConnects == 2
\* number of SSDP replies one discover_all() turns into records
MaxReplies == 2
\* the discovery timeout, in receive slices of 0.5 s
MaxSlices == 2
\* number of records one `discover` command gets from discover_all()
MaxDevices == 2
\* length of the SSIDs and passwords written to a Wi-Fi QR string
MaxLen == 2

----------------------------------------------------------------------------
(* Python values *)

None == <<>>
Some(x) == <<x>>

PyNone == [t |-> "none", i |-> 0, s |-> ""]
PyInt(n) == [t |-> "int", i |-> n, s |-> ""]
PyStr(x) == [t |-> "str", i |-> 0, s |-> x]
PyBool(b) == [t |-> "bool", i |-> IF b THEN 1 ELSE 0, s |-> ""]

\* dict.get(key) / dict.get(key, default) on a kwargs mapping
KwGet(kwargs, key, default) ==
    IF key \in DOMAIN kwargs THEN kwargs[key] ELSE default

NoKwargs == [k \in {} |-> PyNone]

\* int(x): integers are kept, numeric strings are parsed, anything else raises
IntOfStr(x) ==
    CASE x = "7" -> Some(7)
      [] x = "42" -> Some(42)
      [] x = "100" -> Some(100)
      [] OTHER -> None

PyIntOf(v) ==
    CASE v.t = "int" -> [val |-> v.i, exc |-> None]
      [] v.t = "str" /\ IntOfStr(v.s) # None ->
            [val |-> IntOfStr(v.s)[1], exc |-> None]
      [] v.t = "str" /\ IntOfStr(v.s) = None ->
            [val |-> 0, exc |-> Some("ValueError")]
      [] OTHER -> [val |-> 0, exc |-> Some("TypeError")]

Min(a, b) == IF a < b THEN a ELSE b
Max(a, b) == IF a > b THEN a ELSE b

----------------------------------------------------------------------------
(* base.py: Parameter, Capability, ActionResult, DeviceState *)

Param(name, ptype, required, choices) ==
    [name |-> name, param_type |-> ptype, required |-> required,
     choices |-> choices]

Cap(name, actions, parameters, category) ==
    [name |-> name, actions |-> actions, parameters |-> parameters,
     category |-> category]

VOLUME_CAPABILITY ==
    Cap("volume", <<"get", "set", "up", "down", "mute", "unmute">>,
        <<Param("level", "volume", FALSE, <<>>),
          Param("step", "integer", FALSE, <<>>)>>, "audio")

POWER_CAPABILITY ==
    Cap("power", <<"get", "on", "off", "toggle">>, <<>>, "power")

PLAYBACK_CAPABILITY ==
    Cap("playback", <<"play", "pause", "stop", "next", "previous">>, <<>>,
        "media")

\* ActionResult(success, value, error); value and error default to None
ActionResult(success, value, error) ==
    [success |-> success, value |-> value, error |-> error]

Ok(value) == ActionResult(TRUE, value, None)
Fail(msg) == ActionResult(FALSE, None, Some(msg))

\* DeviceState(): is_online False, values {}
DeviceState ==
    [is_online |-> FALSE, values |-> [k \in {} |-> PyNone]]

StateSet(state, capability, value) ==
    [state EXCEPT !.values = (capability :> value) @@ state.values]

StateGet(state, capability, default) ==
    IF capability \in DOMAIN state.values THEN state.values[capability]
    ELSE default

\* ControllableDevice.add_capability
add_capability(d, capability) ==
    [d EXCEPT !.capabilities = Append(@, capability)]

\* the frame a method starts from and the ways it ends
Frame(d, reqs) == [dev |-> d, reqs |-> reqs, ret |-> None, exc |-> None]
Return(f, value) == [f EXCEPT !.ret = value]
Raise(f, e) == [f EXCEPT !.exc = Some(e)]
Sent(f, req) == [f EXCEPT !.reqs = Append(@, req)]

\* a request put on the wire; body is the data handed to urllib: None for
\* a GET, b"" for the POSTs of the Roku adapter, the envelope for SOAP
Request(kind, target, arg, n) ==
    [kind |-> kind, target |-> target, arg |-> arg, n |-> n,
     body |-> CASE kind = "GET" -> None
                [] kind = "POST" -> Some("")
                [] OTHER -> Some("<s:Envelope>")]


----------------------------------------------------------------------------
(* base.py: Parameter.validate *)

PyFloat(n) == [t |-> "float", i |-> n, s |-> ""]

ParameterTypes ==
    {"integer", "float", "string", "boolean", "enum", "percentage", "volume"}

\* Parameter(name, param_type, required, min_value, max_value, choices);
\* an absent min_value / max_value is None, absent choices are <<>>
Parameter(name, param_type, required, min_value, max_value, choices) ==
    [name |-> name, param_type |-> param_type, required |-> required,
     min_value |-> min_value, max_value |-> max_value, choices |-> choices]

\* isinstance(value, (int, float)); bool is a subclass of int
IsNumber(value) == value.t \in {"int", "float", "bool"}

\* value < bound and value > bound raise TypeError unless value is a number
Orderable(value) == IsNumber(value)

\* the outcomes of validate: (True, None), (False, message), an exception
Valid == [ok |-> TRUE, msg |-> None, exc |-> None]
Invalid(msg) == [ok |-> FALSE, msg |-> Some(msg), exc |-> None]
Raised(e) == [ok |-> FALSE, msg |-> None, exc |-> Some(e)]

\* "value not in self.choices" on a list of strings
InChoices(value, choices) ==
    value.t = "str" /\ \E i \in DOMAIN choices : choices[i] = value.s

\* the type validation of validate: None when it lets the value through
TypeValidation(p, value) ==
    CASE p.param_type = "integer" ->
            IF value.t \in {"int", "bool"} THEN None
            ELSE Some("Expected integer")
      [] p.param_type = "float" ->
            IF IsNumber(value) THEN None ELSE Some("Expected number")
      [] p.param_type = "boolean" ->
            IF value.t = "bool" THEN None ELSE Some("Expected boolean")
      [] p.param_type = "string" ->
            IF value.t = "str" THEN None ELSE Some("Expected string")
      [] p.param_type \in {"percentage", "volume"} ->
            IF ~IsNumber(value) THEN Some("Expected number")
            ELSE IF value.i < 0 \/ value.i > 100
            THEN Some("must be between 0 and 100")
            ELSE None
      [] OTHER ->
            IF p.choices # <<>> /\ ~InChoices(value, p.choices)
            THEN Some("must be one of")
            ELSE None

\* a range validation that looks at max_value before min_value
RangeValidation_max_first(p, value) ==
    IF p.max_value # None /\ ~Orderable(value) THEN Raised("TypeError")
    ELSE IF p.max_value # None /\ value.i > p.max_value[1]
    THEN Invalid("must be <=")
    ELSE IF p.min_value # None /\ ~Orderable(value) THEN Raised("TypeError")
    ELSE IF p.min_value # None /\ value.i < p.min_value[1]
    THEN Invalid("must be >=")
    ELSE Valid

\* the range validation of validate
RangeValidation(p, value) ==
    IF p.min_value # None /\ ~Orderable(value) THEN Raised("TypeError")
    ELSE IF p.min_value # None /\ value.i < p.min_value[1]
    THEN Invalid("must be >=")
    ELSE IF p.max_value # None /\ ~Orderable(value) THEN Raised("TypeError")
    ELSE IF p.max_value # None /\ value.i > p.max_value[1]
    THEN Invalid("must be <=")
    ELSE Valid

\* Parameter.validate
validate(p, value) ==
    IF value = PyNone
    THEN IF p.required THEN Invalid("is required") ELSE Valid
    ELSE IF TypeValidation(p, value) # None
    THEN Invalid(TypeValidation(p, value)[1])
    ELSE RangeValidation(p, value)

----------------------------------------------------------------------------
(* services/qr.py: generate_wifi_qr_data.  A string is the sequence of its *)
(* characters.                                                             *)

\* s.replace(ch, rep) for a one-character ch
RECURSIVE Replace(_, _, _)
Replace(s, ch, rep) ==
    IF s = <<>> THEN <<>>
    ELSE (IF Head(s) = ch THEN rep ELSE <<Head(s)>>)
            \o Replace(Tail(s), ch, rep)

\* an escape that doubles the backslashes after the other replacements
escape_backslash_last(s) ==
    Replace(
        Replace(
            Replace(
                Replace(s, ";", <<"\\", ";">>),
                ",", <<"\\", ",">>),
            "\"", <<"\\", "\"">>),
        "\\", <<"\\", "\\">>)

\* escape of generate_wifi_qr_data: four replace passes, backslash first
escape(s) ==
    Replace(
        Replace(
            Replace(
                Replace(s, "\\", <<"\\", "\\">>),
                ";", <<"\\", ";">>),
            ",", <<"\\", ",">>),
        "\"", <<"\\", "\"">>)

\* the security type written to the T: field
SecType(security, password) ==
    CASE security \in {"WPA", "wpa2"} -> "WPA"
      [] security = "WEP" -> "WEP"
      [] OTHER -> IF password = None \/ security \in {"nopass", "none", "open"}
                  THEN "nopass" ELSE "WPA"

Chars(word) ==
    CASE word = "WPA" -> <<"W", "P", "A">>
      [] word = "WEP" -> <<"W", "E", "P">>
      [] word = "nopass" -> <<"n", "o", "p", "a", "s", "s">>
      [] word = "WIFI:" -> <<"W", "I", "F", "I", ":">>
      [] word = "T:" -> <<"T", ":">>
      [] word = "S:" -> <<"S", ":">>
      [] word = "P:" -> <<"P", ":">>
      [] word = "H:true" -> <<"H", ":", "t", "r", "u", "e">>
      [] OTHER -> <<>>

\* ";".join(parts)
RECURSIVE Join(_)
Join(parts) ==
    IF parts = <<>> THEN <<>>
    ELSE IF Len(parts) = 1 THEN Head(parts)
    ELSE Head(parts) \o <<";">> \o Join(Tail(parts))

\* generate_wifi_qr_data(ssid, password, security, hidden)
generate_wifi_qr_data(ssid, password, security, hidden) ==
    LET sec_type == SecType(security, password)
        parts0 == << Chars("T:") \o Chars(sec_type),
                     Chars("S:") \o escape(ssid) >>
        parts1 == IF password # None /\ password[1] # <<>>
                     /\ sec_type # "nopass"
                  THEN Append(parts0, Chars("P:") \o escape(password[1]))
                  ELSE parts0
        parts == IF hidden THEN Append(parts1, Chars("H:true")) ELSE parts1
    IN Chars("WIFI:") \o Join(parts) \o <<";", ";">>

----------------------------------------------------------------------------
(* protocols/upnp.py: UPnPDevice *)

\* UPnPDevice.__init__ (and ControllableDevice.__init__)
UPnPDevice(name, ip_address, location) ==
    [kind |-> "upnp", name |-> name, ip_address |-> ip_address,
     location |-> location, connected |-> FALSE,
     services |-> [k \in {} |-> ""], apps |-> <<>>,
     capabilities |-> <<>>, state |-> DeviceState]

\* "RenderingControl" in service_type, etc.: the key a service is stored under
ServiceKey(service_type) ==
    CASE service_type = "urn:schemas-upnp-org:service:RenderingControl:1"
            -> "RenderingControl"
      [] service_type = "urn:schemas-upnp-org:service:AVTransport:1"
            -> "AVTransport"
      [] service_type = "urn:schemas-upnp-org:service:ConnectionManager:1"
            -> "ConnectionManager"
      [] OTHER -> ""

\* the controlURL made absolute: an empty one stays empty
ControlURL(control_url) ==
    CASE control_url = "" -> ""
      [] control_url = "ctl" -> "http://dev/ctl"
      [] control_url = "/ctl" -> "http://dev/ctl"
      [] OTHER -> control_url

RECURSIVE StoreServices(_, _)
StoreServices(services, entries) ==
    IF entries = <<>> THEN services
    ELSE LET e == Head(entries)
             key == ServiceKey(e.serviceType)
         IN StoreServices(
                IF key = "" THEN services
                ELSE (key :> ControlURL(e.controlURL)) @@ services,
                Tail(entries))

\* UPnPDevice._parse_device_description
UPnP_parse_device_description(f, desc) ==
    IF ~desc.ok THEN Raise(f, "ParseError")
    ELSE [f EXCEPT
            !.dev.name = IF desc.friendlyName # "" THEN desc.friendlyName
                         ELSE @,
            !.dev.services = StoreServices(@, desc.services)]

\* UPnPDevice._setup_capabilities
UPnP_setup_capabilities(d) ==
    LET d1 == IF "RenderingControl" \in DOMAIN d.services
              THEN add_capability(d, VOLUME_CAPABILITY) ELSE d
        d2 == IF "AVTransport" \in DOMAIN d1.services
              THEN add_capability(
                     add_capability(d1, PLAYBACK_CAPABILITY),
                     Cap("now_playing", <<"get">>, <<>>, "media"))
              ELSE d1
    IN add_capability(d2, POWER_CAPABILITY)

\* a connect that reports the failure but does not reset its flags
UPnP_connect_stale(f0, net) ==
    LET f1 == Sent(f0, Request("GET", "description", "", 0))
        f2 == IF net.reachable THEN UPnP_parse_device_description(f1, net.desc)
              ELSE Raise(f1, "URLError")
    IN IF f2.exc = None
       THEN Return([f2 EXCEPT
                      !.dev = UPnP_setup_capabilities(
                                [f2.dev EXCEPT !.connected = TRUE,
                                               !.state.is_online = TRUE])],
                   Some(TRUE))
       ELSE Return([f2 EXCEPT !.exc = None], Some(FALSE))

\* UPnPDevice.connect
UPnP_connect(f0, net) ==
    LET f1 == Sent(f0, Request("GET", "description", "", 0))
        f2 == IF net.reachable THEN UPnP_parse_device_description(f1, net.desc)
              ELSE Raise(f1, "URLError")
    IN IF f2.exc = None
       THEN Return([f2 EXCEPT
                      !.dev = UPnP_setup_capabilities(
                                [f2.dev EXCEPT !.connected = TRUE,
                                               !.state.is_online = TRUE])],
                   Some(TRUE))
       ELSE \* except Exception
            Return([f2 EXCEPT !.exc = None,
                              !.dev.connected = FALSE,
                              !.dev.state.is_online = FALSE],
                   Some(FALSE))

\* UPnPDevice.disconnect
UPnP_disconnect(f) == [f EXCEPT !.dev.connected = FALSE]

\* UPnPDevice.is_available
UPnP_is_available(f0, net) ==
    Return(Sent(f0, Request("GET", "description", "", 0)),
           Some(net.reachable))

\* UPnPDevice._soap_request: the response body, None when the POST failed
UPnP_soap_response(control_url, action, net) ==
    IF ~net.reachable THEN None
    ELSE IF action = "GetVolume" THEN Some(net.volResp)
    ELSE Some(net.body)

\* UPnPDevice._extract_value(response, "CurrentVolume")
ExtractCurrentVolume(xml_response) ==
    CASE xml_response = "<CurrentVolume>42</CurrentVolume>" -> Some("42")
      [] xml_response = "<CurrentVolume>100</CurrentVolume>" -> Some("100")
      [] xml_response = "<CurrentVolume></CurrentVolume>" -> Some("")
      [] OTHER -> None

\* "if response:" - None and the empty body are both false
Truthy(response) == response # None /\ response[1] # ""

\* a "get" that answers with volume 0 when it could not read the volume
UPnP_volume_get_default(f0, control_url, net) ==
    LET f1 == Sent(f0, Request("SOAP", "GetVolume", "", 0))
        response == UPnP_soap_response(control_url, "GetVolume", net)
        volume == IF Truthy(response) THEN ExtractCurrentVolume(response[1])
                  ELSE None
        n == IF volume # None THEN PyIntOf(PyStr(volume[1]))
             ELSE [val |-> 0, exc |-> None]
    IN IF n.exc # None THEN Raise(f1, n.exc[1])
       ELSE Return([f1 EXCEPT !.dev.state =
                        StateSet(@, "volume", PyInt(n.val))],
                   Ok(Some(PyInt(n.val))))

\* _execute_volume, action == "get"
UPnP_volume_get(f0, control_url, net) ==
    LET f1 == Sent(f0, Request("SOAP", "GetVolume", "", 0))
        response == UPnP_soap_response(control_url, "GetVolume", net)
        volume == IF Truthy(response) THEN ExtractCurrentVolume(response[1])
                  ELSE None
        n == IF volume # None THEN PyIntOf(PyStr(volume[1]))
             ELSE [val |-> 0, exc |-> None]
    IN IF volume = None THEN Return(f1, Fail("Failed to get volume"))
       ELSE IF n.exc # None THEN Raise(f1, n.exc[1])
       ELSE Return([f1 EXCEPT !.dev.state =
                        StateSet(@, "volume", PyInt(n.val))],
                   Ok(Some(PyInt(n.val))))

\* a "set" that sends the integer it was given, without the 0..100 clamp
UPnP_volume_set_unclamped(f0, control_url, level) ==
    IF level = PyNone THEN Return(f0, Fail("Volume level required"))
    ELSE LET n == PyIntOf(level)
         IN IF n.exc # None THEN Raise(f0, n.exc[1])
            ELSE Return(
                   [Sent(f0, Request("SOAP", "SetVolume", "DesiredVolume",
                                     n.val))
                      EXCEPT !.dev.state = StateSet(@, "volume", PyInt(n.val))],
                   Ok(Some(PyInt(n.val))))

\* _execute_volume, action == "set"
UPnP_volume_set(f0, control_url, level) ==
    IF level = PyNone THEN Return(f0, Fail("Volume level required"))
    ELSE LET n == PyIntOf(level)
             clamped == Max(0, Min(100, n.val))
         IN IF n.exc # None THEN Raise(f0, n.exc[1])
            ELSE Return(
                   [Sent(f0, Request("SOAP", "SetVolume", "DesiredVolume",
                                     clamped))
                      EXCEPT !.dev.state =
                        StateSet(@, "volume", PyInt(clamped))],
                   Ok(Some(PyInt(clamped))))

\* _execute_volume, action == "up" (sign = 1) and "down" (sign = -1)
UPnP_volume_adjust(f0, control_url, sign, kwargs, net) ==
    LET f1 == IF "volume" \notin DOMAIN f0.dev.state.values
              THEN UPnP_volume_get(f0, control_url, net) ELSE f0
        current == StateGet(f1.dev.state, "volume", PyInt(50))
        step == KwGet(kwargs, "step", PyInt(5))
        new_level == IF sign = 1 THEN Min(100, current.i + step.i)
                     ELSE Max(0, current.i - step.i)
    IN IF f1.exc # None THEN f1
       ELSE IF step.t # "int" THEN Raise(f1, "TypeError")
       ELSE UPnP_volume_set(f1, control_url, PyInt(new_level))

\* _execute_volume, action == "mute" / "unmute"
UPnP_volume_mute(f0, muted) ==
    Return([Sent(f0, Request("SOAP", "SetMute", "DesiredMute",
                             IF muted THEN 1 ELSE 0))
              EXCEPT !.dev.state =
                StateSet(@, "muted", PyBool(muted))],
           Ok(Some(PyBool(muted))))

\* UPnPDevice._execute_volume
UPnP_execute_volume(f0, action, kwargs, net) ==
    LET control_url == KwGet(f0.dev.services, "RenderingControl", "")
    IN CASE control_url = "" ->
                Return(f0, Fail("RenderingControl service not available"))
         [] control_url # "" /\ action = "get" ->
                UPnP_volume_get(f0, control_url, net)
         [] control_url # "" /\ action = "set" ->
                UPnP_volume_set(f0, control_url, KwGet(kwargs, "level", PyNone))
         [] control_url # "" /\ action = "up" ->
                UPnP_volume_adjust(f0, control_url, 1, kwargs, net)
         [] control_url # "" /\ action = "down" ->
                UPnP_volume_adjust(f0, control_url, -1, kwargs, net)
         [] control_url # "" /\ action = "mute" -> UPnP_volume_mute(f0, TRUE)
         [] control_url # "" /\ action = "unmute" ->
                UPnP_volume_mute(f0, FALSE)
         [] OTHER -> Return(f0, Fail("Unknown volume action"))

\* action_map of UPnPDevice._execute_playback
UPnP_action_map(action) ==
    CASE action = "play" -> "Play"
      [] action = "pause" -> "Pause"
      [] action = "stop" -> "Stop"
      [] action = "next" -> "Next"
      [] action = "previous" -> "Previous"
      [] OTHER -> ""

\* UPnPDevice._execute_playback
UPnP_execute_playback(f0, action) ==
    LET control_url == KwGet(f0.dev.services, "AVTransport", "")
        upnp_action == UPnP_action_map(action)
    IN IF control_url = ""
       THEN Return(f0, Fail("AVTransport service not available"))
       ELSE IF upnp_action = ""
       THEN Return(f0, Fail("Unknown playback action"))
       ELSE Return(Sent(f0, Request("SOAP", upnp_action, "", 0)), Ok(None))

\* UPnPDevice._execute_power
UPnP_execute_power(f0, action, net) ==
    IF action = "get"
    THEN LET f1 == UPnP_is_available(f0, net)
         IN Return(f1, Ok(Some(PyStr(IF f1.ret[1] THEN "on" ELSE "off"))))
    ELSE Return(f0, Fail("Power control not supported via UPnP"))

\* UPnPDevice._get_now_playing
UPnP_get_now_playing(f0, net) ==
    LET control_url == KwGet(f0.dev.services, "AVTransport", "")
        f1 == Sent(f0, Request("SOAP", "GetPositionInfo", "", 0))
        response == UPnP_soap_response(control_url, "GetPositionInfo", net)
    IN IF control_url = ""
       THEN Return(f0, Fail("AVTransport service not available"))
       ELSE IF Truthy(response) THEN Return(f1, Ok(Some(PyStr("info"))))
       ELSE Return(f1, Fail("Failed to get playback info"))

\* the try block of UPnPDevice.execute
UPnP_dispatch(f0, capability, action, kwargs, net) ==
    CASE capability = "volume" -> UPnP_execute_volume(f0, action, kwargs, net)
      [] capability = "playback" -> UPnP_execute_playback(f0, action)
      [] capability = "power" -> UPnP_execute_power(f0, action, net)
      [] capability = "now_playing" -> UPnP_get_now_playing(f0, net)
      [] OTHER -> Return(f0, Fail("Unknown capability"))

\* an except branch that reports the failure without a message
Caught_silent(f) ==
    IF f.exc = None THEN f
    ELSE Return([f EXCEPT !.exc = None], ActionResult(FALSE, None, None))

\* try: ... except Exception as e: return ActionResult(False, error=str(e))
Caught(f) ==
    IF f.exc = None THEN f
    ELSE Return([f EXCEPT !.exc = None], Fail(f.exc[1]))

\* UPnPDevice.execute
UPnP_execute(f0, capability, action, kwargs, net) ==
    LET f1 == IF ~f0.dev.connected THEN UPnP_connect(f0, net) ELSE f0
    IN IF f1.exc # None THEN f1
       ELSE IF ~f0.dev.connected /\ ~f1.ret[1]
       THEN Return(f1, Fail("Device not connected"))
       ELSE Caught(UPnP_dispatch(f1, capability, action, kwargs, net))

\* UPnPDevice.refresh_state
UPnP_refresh_state(f0, net) ==
    LET f1 == UPnP_is_available(f0, net)
        f2 == [f1 EXCEPT !.dev.state.is_online = f1.ret[1]]
        f3 == UPnP_execute(f2, "volume", "get", NoKwargs, net)
    IN IF f2.dev.state.is_online
          /\ "RenderingControl" \in DOMAIN f2.dev.services
       THEN IF f3.exc # None THEN f3
            ELSE IF f3.ret.success
            THEN Return([f3 EXCEPT !.dev.state =
                            StateSet(@, "volume", f3.ret.value[1])],
                        None)
            ELSE Return(f3, None)
       ELSE Return(f2, None)

----------------------------------------------------------------------------
(* adapters/roku.py: RokuDevice *)

\* RokuDevice.KEYS
KEYS(key) ==
    CASE key = "home" -> "Home"
      [] key = "back" -> "Back"
      [] key = "select" -> "Select"
      [] key = "left" -> "Left"
      [] key = "right" -> "Right"
      [] key = "up" -> "Up"
      [] key = "down" -> "Down"
      [] key = "play" -> "Play"
      [] key = "pause" -> "Pause"
      [] key = "rewind" -> "Rev"
      [] key = "forward" -> "Fwd"
      [] key = "info" -> "Info"
      [] key = "volume_up" -> "VolumeUp"
      [] key = "volume_down" -> "VolumeDown"
      [] key = "mute" -> "VolumeMute"
      [] key = "power" -> "Power"
      [] key = "power_on" -> "PowerOn"
      [] key = "power_off" -> "PowerOff"
      [] OTHER -> ""

KEY_NAMES ==
    <<"home", "back", "select", "left", "right", "up", "down", "play",
      "pause", "rewind", "forward", "info", "volume_up", "volume_down",
      "mute", "power", "power_on", "power_off">>

\* RokuDevice.__init__ (and ControllableDevice.__init__)
RokuDevice(name, ip_address) ==
    [kind |-> "roku", name |-> name, ip_address |-> ip_address,
     location |-> "", connected |-> FALSE,
     services |-> [k \in {} |-> ""], apps |-> <<>>,
     capabilities |-> <<>>, state |-> DeviceState]

\* self._apps[app_id] = app_name on an insertion-ordered dict
DictPut(apps, app) ==
    IF \E i \in DOMAIN apps : apps[i].id = app.id
    THEN [i \in DOMAIN apps |->
            IF apps[i].id = app.id THEN app ELSE apps[i]]
    ELSE Append(apps, app)

RECURSIVE StoreApps(_, _)
StoreApps(apps, entries) ==
    IF entries = <<>> THEN apps
    ELSE LET e == Head(entries)
         IN StoreApps(IF e.id # "" /\ e.name # "" THEN DictPut(apps, e)
                      ELSE apps,
                      Tail(entries))

\* RokuDevice._fetch_apps: every failure is swallowed
Roku_fetch_apps(f0, net) ==
    LET f1 == Sent(f0, Request("GET", "apps", "", 0))
    IN IF net.reachable /\ net.appsBody # None
       THEN [f1 EXCEPT !.dev.apps = StoreApps(@, net.appsBody[1])]
       ELSE f1

AppNames(apps) == [i \in DOMAIN apps |-> apps[i].name]

FirstTen(names) == SubSeq(names, 1, Min(10, Len(names)))

\* RokuDevice._setup_capabilities
Roku_setup_capabilities(d) ==
    LET d1 == add_capability(d, POWER_CAPABILITY)
        d2 == add_capability(d1, PLAYBACK_CAPABILITY)
        d3 == add_capability(d2,
                Cap("volume", <<"up", "down", "mute">>, <<>>, "audio"))
        d4 == add_capability(d3,
                Cap("navigate",
                    <<"up", "down", "left", "right", "select", "back",
                      "home">>, <<>>, "navigation"))
        d5 == add_capability(d4,
                Cap("app", <<"list", "launch">>,
                    <<Param("name", "string", FALSE,
                            FirstTen(AppNames(d.apps)))>>, "apps"))
    IN add_capability(d5,
          Cap("key", <<"press">>,
              <<Param("key", "enum", FALSE, KEY_NAMES)>>, "remote"))

\* RokuDevice.connect
Roku_connect(f0, net) ==
    LET f1 == Sent(f0, Request("GET", "device-info", "", 0))
        f2 == IF net.reachable /\ net.infoOk
              THEN [f1 EXCEPT !.dev.name =
                        IF net.infoName # "" THEN net.infoName ELSE @]
              ELSE Raise(f1, IF net.reachable THEN "ParseError"
                             ELSE "URLError")
        f3 == Roku_fetch_apps(f2, net)
    IN IF f2.exc = None
       THEN Return([f3 EXCEPT
                      !.dev = Roku_setup_capabilities(
                                [f3.dev EXCEPT !.connected = TRUE,
                                               !.state.is_online = TRUE])],
                   Some(TRUE))
       ELSE \* except Exception
            Return([f2 EXCEPT !.exc = None,
                              !.dev.connected = FALSE,
                              !.dev.state.is_online = FALSE],
                   Some(FALSE))

\* RokuDevice.disconnect
Roku_disconnect(f) == [f EXCEPT !.dev.connected = FALSE]

\* RokuDevice.is_available
Roku_is_available(f0, net) ==
    Return(Sent(f0, Request("GET", "device-info", "", 0)),
           Some(net.reachable))

\* a keypress that reports success whatever became of the POST
Roku_send_keypress_blind(f0, key, net) ==
    Return(Sent(f0, Request("POST", "keypress", key, 0)), Ok(None))

\* RokuDevice._send_keypress
Roku_send_keypress(f0, key, net) ==
    Return(Sent(f0, Request("POST", "keypress", key, 0)),
           IF net.reachable THEN Ok(None) ELSE Fail("URLError"))

\* RokuDevice._launch_app
Roku_launch_app(f0, app_id, net) ==
    Return(Sent(f0, Request("POST", "launch", app_id, 0)),
           IF net.reachable THEN Ok(None) ELSE Fail("URLError"))

\* RokuDevice._execute_power
Roku_execute_power(f0, action, net) ==
    CASE action = "get" ->
            LET f1 == Roku_is_available(f0, net)
            IN Return(f1, Ok(Some(PyStr(IF f1.ret[1] THEN "on" ELSE "off"))))
      [] action = "on" -> Roku_send_keypress(f0, "PowerOn", net)
      [] action = "off" -> Roku_send_keypress(f0, "PowerOff", net)
      [] action = "toggle" -> Roku_send_keypress(f0, "Power", net)
      [] OTHER -> Return(f0, Fail("Unknown power action"))

\* key_map of RokuDevice._execute_playback
Roku_playback_key(action) ==
    CASE action = "play" -> "Play"
      [] action = "pause" -> "Play"
      [] action = "stop" -> "Back"
      [] action = "next" -> "Fwd"
      [] action = "previous" -> "Rev"
      [] OTHER -> ""

\* key_map of RokuDevice._execute_volume
Roku_volume_key(action) ==
    CASE action = "up" -> "VolumeUp"
      [] action = "down" -> "VolumeDown"
      [] action = "mute" -> "VolumeMute"
      [] OTHER -> ""

\* key_map of RokuDevice._execute_navigate
Roku_navigate_key(action) ==
    CASE action = "up" -> "Up"
      [] action = "down" -> "Down"
      [] action = "left" -> "Left"
      [] action = "right" -> "Right"
      [] action = "select" -> "Select"
      [] action = "back" -> "Back"
      [] action = "home" -> "Home"
      [] OTHER -> ""

\* _execute_playback / _execute_volume / _execute_navigate
Roku_execute_keymap(f0, key, msg, net) ==
    IF key # "" THEN Roku_send_keypress(f0, key, net)
    ELSE Return(f0, Fail(msg))

\* str.lower() on the names used here
Lower(x) ==
    CASE x = "Netflix" -> "netflix"
      [] x = "Hulu" -> "hulu"
      [] x = "Net" -> "net"
      [] OTHER -> x

\* "needle in haystack" on lower-cased names
Contains(haystack, needle) ==
    \/ needle = ""
    \/ needle = haystack
    \/ haystack = "netflix" /\ needle = "net"

\* the first app whose lower-cased name contains name, "" when none does
RECURSIVE FindApp(_, _)
FindApp(apps, name) ==
    IF apps = <<>> THEN ""
    ELSE IF Contains(Lower(Head(apps).name), name) THEN Head(apps).id
    ELSE FindApp(Tail(apps), name)

\* RokuDevice._execute_app
Roku_execute_app(f0, action, kwargs, net) ==
    CASE action = "list" -> Return(f0, Ok(Some(PyStr("apps"))))
      [] action = "launch" ->
            LET arg == KwGet(kwargs, "name", PyStr(""))
                app_id == FindApp(f0.dev.apps, Lower(arg.s))
            IN IF arg.t # "str" THEN Raise(f0, "AttributeError")
               ELSE IF app_id = "" THEN Return(f0, Fail("App not found"))
               ELSE Roku_launch_app(f0, app_id, net)
      [] OTHER -> Return(f0, Fail("Unknown app action"))

\* RokuDevice._execute_key
Roku_execute_key(f0, kwargs, net) ==
    LET key == KwGet(kwargs, "key", PyNone)
        roku_key == IF key.t = "str" THEN KEYS(key.s) ELSE ""
    IN IF key = PyNone \/ key = PyStr("") \/ key = PyInt(0)
       THEN Return(f0, Fail("Key name required"))
       ELSE IF roku_key = "" THEN Return(f0, Fail("Unknown key"))
       ELSE Roku_send_keypress(f0, roku_key, net)

\* the try block of RokuDevice.execute
Roku_dispatch(f0, capability, action, kwargs, net) ==
    CASE capability = "power" -> Roku_execute_power(f0, action, net)
      [] capability = "playback" ->
            Roku_execute_keymap(f0, Roku_playback_key(action),
                                "Unknown playback action", net)
      [] capability = "volume" ->
            Roku_execute_keymap(f0, Roku_volume_key(action),
                                "Unknown volume action", net)
      [] capability = "navigate" ->
            Roku_execute_keymap(f0, Roku_navigate_key(action),
                                "Unknown navigate action", net)
      [] capability = "app" -> Roku_execute_app(f0, action, kwargs, net)
      [] capability = "key" -> Roku_execute_key(f0, kwargs, net)
      [] OTHER -> Return(f0, Fail("Unknown capability"))

\* an execute that tries the connect a second time when the first one failed
Roku_execute_retry(f0, capability, action, kwargs, net) ==
    LET f1 == IF ~f0.dev.connected THEN Roku_connect(f0, net) ELSE f0
        f2 == IF ~f0.dev.connected /\ ~f1.ret[1] THEN Roku_connect(f1, net)
              ELSE f1
    IN IF f2.exc # None THEN f2
       ELSE IF ~f0.dev.connected /\ ~f2.ret[1]
       THEN Return(f2, Fail("Device not connected"))
       ELSE Caught(Roku_dispatch(f2, capability, action, kwargs, net))

\* RokuDevice.execute
Roku_execute(f0, capability, action, kwargs, net) ==
    LET f1 == IF ~f0.dev.connected THEN Roku_connect(f0, net) ELSE f0
    IN IF f1.exc # None THEN f1
       ELSE IF ~f0.dev.connected /\ ~f1.ret[1]
       THEN Return(f1, Fail("Device not connected"))
       ELSE Caught(Roku_dispatch(f1, capability, action, kwargs, net))

\* RokuDevice.refresh_state
Roku_refresh_state(f0, net) ==
    LET f1 == Roku_is_available(f0, net)
        f2 == [f1 EXCEPT !.dev.state.is_online = f1.ret[1]]
        f3 == Sent(f2, Request("GET", "active-app", "", 0))
    IN IF ~f2.dev.state.is_online THEN Return(f2, None)
       ELSE IF net.activeApp = None THEN Return(f3, None)
       ELSE Return([f3 EXCEPT !.dev.state =
                      StateSet(StateSet(@, "current_app",
                                        PyStr(net.activeApp[1].name)),
                               "current_app_id",
                               PyStr(net.activeApp[1].id))],
                   None)

----------------------------------------------------------------------------
(* discovery.py: get_device_adapter, and create_upnp_device of upnp.py *)

DiscoveredDevice(ip_address, protocol, device_type, name, manufacturer, location) ==
    [ip_address |-> ip_address, protocol |-> protocol,
     device_type |-> device_type, name |-> name,
     manufacturer |-> manufacturer, location |-> location]

\* f"UPnP Device ({ip})" and f"Roku ({ip})"
DefaultName(protocol, ip_address) ==
    CASE protocol = "upnp" /\ ip_address = "10.0.0.5" ->
            "UPnP Device (10.0.0.5)"
      [] protocol = "upnp" /\ ip_address = "10.0.0.6" ->
            "UPnP Device (10.0.0.6)"
      [] protocol = "roku" /\ ip_address = "10.0.0.5" -> "Roku (10.0.0.5)"
      [] protocol = "roku" /\ ip_address = "10.0.0.6" -> "Roku (10.0.0.6)"
      [] OTHER -> "Device"

\* the value of a call that built no device (None)
NoDevice ==
    [kind |-> "none", name |-> "", ip_address |-> "", location |-> "",
     connected |-> FALSE, services |-> [k \in {} |-> ""], apps |-> <<>>,
     capabilities |-> <<>>, state |-> DeviceState]

\* a factory that hands the device over whether or not connect() succeeded
create_upnp_device_unchecked(discovered, net) ==
    LET device == UPnPDevice(
                    IF discovered.name # "" THEN discovered.name
                    ELSE DefaultName("upnp", discovered.ip_address),
                    discovered.ip_address, discovered.location)
        f1 == UPnP_connect(Frame(device, <<>>), net)
    IN IF discovered.location = "" THEN Frame(NoDevice, <<>>)
       ELSE [f1 EXCEPT !.ret = None]

\* create_upnp_device
create_upnp_device(discovered, net) ==
    LET device == UPnPDevice(
                    IF discovered.name # "" THEN discovered.name
                    ELSE DefaultName("upnp", discovered.ip_address),
                    discovered.ip_address, discovered.location)
        f1 == UPnP_connect(Frame(device, <<>>), net)
    IN IF discovered.location = "" THEN Frame(NoDevice, <<>>)
       ELSE IF ~f1.ret[1] THEN [f1 EXCEPT !.dev = NoDevice, !.ret = None]
       ELSE [f1 EXCEPT !.ret = None]

\* DeviceDiscovery.get_device_adapter: the frame's dev is the device returned
get_device_adapter(discovered, net) ==
    CASE discovered.protocol = "upnp" -> create_upnp_device(discovered, net)
      [] discovered.protocol = "roku" ->
            Frame(RokuDevice(
                    IF discovered.name # "" THEN discovered.name
                    ELSE DefaultName("roku", discovered.ip_address),
                    discovered.ip_address), <<>>)
      [] OTHER -> Frame(NoDevice, <<>>)

\* a loop that gives up on the first record that yields no adapter
RECURSIVE create_devices_abort(_, _, _)
create_devices_abort(discovered, nets, devices) ==
    IF discovered = <<>> THEN devices
    ELSE LET f == get_device_adapter(Head(discovered), Head(nets))
         IN IF f.exc # None \/ f.dev.kind = "none" THEN <<>>
            ELSE create_devices_abort(Tail(discovered), Tail(nets),
                                      Append(devices, f.dev))

\* the for loop of DeviceDiscovery.discover_and_create_devices; nets[i] is
\* what the device of the i-th record answers
RECURSIVE create_devices(_, _, _)
create_devices(discovered, nets, devices) ==
    IF discovered = <<>> THEN devices
    ELSE LET f == get_device_adapter(Head(discovered), Head(nets))
         IN create_devices(
                Tail(discovered), Tail(nets),
                IF f.exc # None THEN devices    \* except Exception: continue
                ELSE IF f.dev.kind # "none" THEN Append(devices, f.dev)
                ELSE devices)

\* ControllableDevice.get_all_commands: the "command" entry of every descriptor
RECURSIVE CommandsOf(_, _)
CommandsOf(name, actions) ==
    IF actions = <<>> THEN <<>>
    ELSE <<[capability |-> name, action |-> Head(actions)]>>
            \o CommandsOf(name, Tail(actions))

RECURSIVE get_all_commands(_)
get_all_commands(capabilities) ==
    IF capabilities = <<>> THEN <<>>
    ELSE CommandsOf(Head(capabilities).name, Head(capabilities).actions)
            \o get_all_commands(Tail(capabilities))

----------------------------------------------------------------------------
(* The network as one call sees it *)

Service(service_type, control_url) ==
    [serviceType |-> service_type, controlURL |-> control_url]

RC == Service("urn:schemas-upnp-org:service:RenderingControl:1", "/ctl")
AVT == Service("urn:schemas-upnp-org:service:AVTransport:1", "ctl")
CM == Service("urn:schemas-upnp-org:service:ConnectionManager:1",
              "http://dev/cm")

Description(ok, friendlyName, services) ==
    [ok |-> ok, friendlyName |-> friendlyName, services |-> services]

NoDescription == Description(FALSE, "", <<>>)

\* device descriptions a UPnP device may serve: unparsable, and parsable
\* ones with different service lists
Descriptions ==
    { NoDescription,
      Description(TRUE, "", <<CM>>),
      Description(TRUE, "Living Room", <<RC>>),
      Description(TRUE, "", <<AVT>>) }

VolumeResponses ==
    { "<CurrentVolume>42</CurrentVolume>",
      "<CurrentVolume></CurrentVolume>",
      "<s:Fault/>", "" }

App(id, name) == [id |-> id, name |-> name]

AppsBodies ==
    { None, Some(<<>>), Some(<<App("12", "Netflix")>>),
      Some(<<App("2285", "Hulu"), App("12", "Netflix")>>) }

Net(reachable, desc, volResp, body, infoOk, infoName, appsBody, activeApp) ==
    [reachable |-> reachable, desc |-> desc, volResp |-> volResp,
     body |-> body, infoOk |-> infoOk, infoName |-> infoName,
     appsBody |-> appsBody, activeApp |-> activeApp]

\* the device does not answer: every HTTP call fails
Unreachable == Net(FALSE, NoDescription, "", "", FALSE, "", None, None)

\* what a UPnP device answers; only the answers the call asks for vary
UPnPNets(needDesc, needVolume, needBody) ==
    { Unreachable } \cup
    { Net(TRUE, d, v, b, FALSE, "", None, None) :
        d \in IF needDesc THEN Descriptions ELSE {NoDescription},
        v \in IF needVolume THEN VolumeResponses ELSE {""},
        b \in IF needBody THEN {"<RelTime>0:01</RelTime>", ""} ELSE {""} }

\* what a Roku answers
RokuNets(needInfo, needActive) ==
    { Unreachable } \cup
    { Net(TRUE, NoDescription, "", "", i[1], i[2], a, c) :
        i \in IF needInfo
              THEN {<<FALSE, "">>, <<TRUE, "">>, <<TRUE, "Den">>}
              ELSE {<<FALSE, "">>},
        a \in IF needInfo THEN AppsBodies ELSE {None},
        c \in IF needActive THEN {None, Some(App("12", "Netflix"))}
              ELSE {None} }

----------------------------------------------------------------------------
(* Calls on one device *)

Call(op, capability, action, kwargs, net, f, pre) ==
    [op |-> op, capability |-> capability, action |-> action,
     kwargs |-> kwargs, net |-> net, ret |-> f.ret, raised |-> f.exc # None,
     reqs |-> f.reqs, pre |-> pre]

NoCall ==
    [op |-> "idle", capability |-> "", action |-> "", kwargs |-> NoKwargs,
     net |-> Unreachable, ret |-> None, raised |-> FALSE, reqs |-> <<>>,
     pre |-> NoDevice]

\* the records discovery may hand over
DiscoveredSet ==
    { DiscoveredDevice("10.0.0.5", "roku", "streaming", "", Some("Roku"),
                       "http://dev:8060/"),
      DiscoveredDevice("10.0.0.5", "roku", "streaming", "Roku", Some("Roku"),
                       "http://dev:8060/"),
      DiscoveredDevice("10.0.0.6", "upnp", "unknown", "", None,
                       "http://dev/desc.xml"),
      DiscoveredDevice("10.0.0.6", "upnp", "speaker", "Sonos", Some("Sonos"),
                       ""),
      DiscoveredDevice("10.0.0.6", "mdns", "unknown", "", None, "") }

\* successful connects so far: each one appends exactly one power capability
NumConnects(d) ==
    Cardinality({i \in DOMAIN d.capabilities :
                    d.capabilities[i].name = "power"})

MayConnect(d) == NumConnects(d) < MaxConnects

\* no discover_all() is running
NoLoop == [ready |-> <<>>, now |-> 0]
NoProbe ==
    [pc |-> "idle", devices |-> <<>>, end_time |-> 0, started |-> None,
     finished |-> None, result |-> <<>>]
NoFound ==
    [pc |-> "idle", unique |-> <<>>, discovered |-> <<>>, created |-> FALSE,
     nets |-> <<>>, devices |-> <<>>]

\* no command has run: the cache is the empty dict of the module
NoCache == [k \in {} |-> NoDevice]
NoCmd == [op |-> "idle", devices |-> <<>>, before |-> NoCache]
NoCalc == [fn |-> "idle", args |-> <<>>, out |-> <<>>, done |-> FALSE]

\* no ConfigManager was built
NoCfg ==
    [devices |-> <<>>, file |-> <<>>, op |-> "idle", arg |-> <<>>,
     ret |-> <<>>, before |-> <<>>]

\* no FileServer was built
NoSrv == [mode |-> "none"]

Init ==
    /\ disc \in DiscoveredSet
    /\ dev = NoDevice
    /\ last = [NoCall EXCEPT !.op = "init"]
    /\ loop = NoLoop
    /\ probe = [p \in {"upnp", "roku"} |-> NoProbe]
    /\ found = NoFound
    /\ cache = NoCache
    /\ cmd = NoCmd
    /\ cfg = NoCfg
    /\ srv = NoSrv
    /\ calc = NoCalc

\* device = await discovery.get_device_adapter(disc)
GetDeviceAdapter ==
    /\ last.op = "init"
    /\ \E net \in IF disc.protocol = "upnp" THEN UPnPNets(TRUE, FALSE, FALSE)
                  ELSE {Unreachable, Net(TRUE, NoDescription, "", "", TRUE,
                                         "", None, None)} :
         LET f == get_device_adapter(disc, net)
         IN /\ dev' = f.dev
            /\ last' = Call("get_device_adapter", "", "", NoKwargs, net, f,
                            dev)
    /\ UNCHANGED <<disc, discovery, tools, cfgsrv>>

\* await device.connect()
Connect ==
    /\ last.op = "idle"
    /\ dev.kind # "none"
    /\ MayConnect(dev)
    /\ \E net \in IF dev.kind = "upnp" THEN UPnPNets(TRUE, FALSE, FALSE)
                  ELSE RokuNets(TRUE, FALSE) :
         LET f == IF dev.kind = "upnp" THEN UPnP_connect(Frame(dev, <<>>), net)
                  ELSE Roku_connect(Frame(dev, <<>>), net)
         IN /\ dev' = f.dev
            /\ last' = Call("connect", "", "", NoKwargs, net, f, dev)
    /\ UNCHANGED <<disc, discovery, tools, cfgsrv>>

\* await device.disconnect()
Disconnect ==
    /\ last.op = "idle"
    /\ dev.kind # "none"
    /\ LET f == IF dev.kind = "upnp" THEN UPnP_disconnect(Frame(dev, <<>>))
                ELSE Roku_disconnect(Frame(dev, <<>>))
       IN /\ dev' = f.dev
          /\ last' = Call("disconnect", "", "", NoKwargs, Unreachable, f, dev)
    /\ UNCHANGED <<disc, discovery, tools, cfgsrv>>

\* await device.is_available()
IsAvailable ==
    /\ last.op = "idle"
    /\ dev.kind # "none"
    /\ \E net \in {Unreachable,
                   Net(TRUE, NoDescription, "", "", FALSE, "", None, None)} :
         LET f == IF dev.kind = "upnp"
                  THEN UPnP_is_available(Frame(dev, <<>>), net)
                  ELSE Roku_is_available(Frame(dev, <<>>), net)
         IN /\ dev' = f.dev
            /\ last' = Call("is_available", "", "", NoKwargs, net, f, dev)
    /\ UNCHANGED <<disc, discovery, tools, cfgsrv>>

\* the actions some adapter declares for a capability, and one nobody declares
\* ("bogus"); a capability the adapter has no handler for is tried once
ActionsOf(kind, capability) ==
    CASE capability = "volume" ->
            {"get", "set", "up", "down", "mute", "unmute", "bogus"}
      [] capability = "playback" ->
            {"play", "pause", "stop", "next", "previous", "bogus"}
      [] capability = "power" -> {"get", "on", "off", "toggle", "bogus"}
      [] capability = "now_playing" /\ kind = "upnp" -> {"get", "bogus"}
      [] capability = "navigate" /\ kind = "roku" ->
            {"up", "down", "left", "right", "select", "back", "home", "bogus"}
      [] capability = "app" /\ kind = "roku" -> {"list", "launch", "bogus"}
      [] capability = "key" /\ kind = "roku" -> {"press", "bogus"}
      [] OTHER -> {"get"}

CapabilityNames ==
    {"volume", "playback", "power", "now_playing", "navigate", "app", "key",
     "bogus"}

\* keyword arguments tried with a command
KwargsOf(capability, action) ==
    CASE capability = "volume" /\ action = "set" ->
            {NoKwargs} \cup
            {("level" :> v) : v \in {PyNone, PyInt(-3), PyInt(130),
                                     PyStr("abc"), PyStr("100")}}
      [] capability = "volume" /\ action \in {"up", "down"} ->
            {NoKwargs} \cup
            {("step" :> v) : v \in {PyInt(60), PyInt(-60), PyNone}}
      [] capability = "app" /\ action = "launch" ->
            {NoKwargs} \cup
            {("name" :> v) : v \in {PyStr("Net"), PyStr("hulu"), PyStr("zzz"),
                                    PyNone}}
      [] capability = "key" ->
            {NoKwargs} \cup
            {("key" :> v) : v \in {PyStr("home"), PyStr("left"),
                                   PyStr("bogus"), PyStr(""), PyNone}}
      [] OTHER -> {NoKwargs}

\* await device.execute(capability, action, **kwargs)
Execute ==
    /\ last.op = "idle"
    /\ dev.kind # "none"
    /\ ~dev.connected => MayConnect(dev)
    /\ \E capability \in CapabilityNames :
       \E action \in ActionsOf(dev.kind, capability) :
       \E kwargs \in KwargsOf(capability, action) :
       \E net \in IF dev.kind = "upnp"
                  THEN UPnPNets(~dev.connected,
                                capability = "volume"
                                    /\ action \in {"get", "up", "down"},
                                capability = "now_playing")
                  ELSE RokuNets(~dev.connected, FALSE) :
         LET f == IF dev.kind = "upnp"
                  THEN UPnP_execute(Frame(dev, <<>>), capability, action,
                                    kwargs, net)
                  ELSE Roku_execute(Frame(dev, <<>>), capability, action,
                                    kwargs, net)
         IN /\ dev' = f.dev
            /\ last' = Call("execute", capability, action, kwargs, net, f, dev)
    /\ UNCHANGED <<disc, discovery, tools, cfgsrv>>

\* await device.refresh_state()
RefreshState ==
    /\ last.op = "idle"
    /\ dev.kind # "none"
    /\ ~dev.connected => MayConnect(dev)
    /\ \E net \in IF dev.kind = "upnp"
                  THEN UPnPNets(~dev.connected, TRUE, FALSE)
                  ELSE RokuNets(FALSE, TRUE) :
         LET f == IF dev.kind = "upnp"
                  THEN UPnP_refresh_state(Frame(dev, <<>>), net)
                  ELSE Roku_refresh_state(Frame(dev, <<>>), net)
         IN /\ dev' = f.dev
            /\ last' = Call("refresh_state", "", "", NoKwargs, net, f, dev)
    /\ UNCHANGED <<disc, discovery, tools, cfgsrv>>

\* commands = dev.get_all_commands()  (tools/control.py, list_commands)
ListCommands ==
    /\ last.op = "idle"
    /\ dev.kind # "none"
    /\ LET f == Return(Frame(dev, <<>>), get_all_commands(dev.capabilities))
       IN last' = Call("get_all_commands", "", "", NoKwargs, Unreachable, f,
                       dev)
    /\ UNCHANGED <<disc, dev, discovery, tools, cfgsrv>>

\* the caller has used the outcome of the call (tools/control.py prints it)
Finish ==
    /\ last.op \notin {"init", "idle"}
    /\ last' = NoCall
    /\ UNCHANGED <<disc, dev, discovery, tools, cfgsrv>>

Next ==
    \/ GetDeviceAdapter
    \/ Connect
    \/ Disconnect
    \/ IsAvailable
    \/ Execute
    \/ RefreshState
    \/ ListCommands
    \/ Finish

Spec == Init /\ [][Next]_vars

TypeOK ==
    /\ dev.kind \in {"none", "upnp", "roku"}
    /\ dev.connected \in BOOLEAN
    /\ last.raised \in BOOLEAN

----------------------------------------------------------------------------
(* Properties of the device adapters, checked under Spec *)

Range(seq) == {seq[i] : i \in DOMAIN seq}

\* capability.action is one of the pairs device d declares
Declares(d, capability, action) ==
    \E i \in DOMAIN d.capabilities :
        /\ d.capabilities[i].name = capability
        /\ action \in Range(d.capabilities[i].actions)

\* the requests connect() puts on the wire when it succeeds
ConnectRequests(kind) ==
    IF kind = "upnp" THEN <<Request("GET", "description", "", 0)>>
    ELSE <<Request("GET", "device-info", "", 0),
           Request("GET", "apps", "", 0)>>

NoRepeat(seq) ==
    \A i, j \in DOMAIN seq : i # j => seq[i] # seq[j]

\* C1: fail-soft execute. For a device whose endpoint is unreachable,
\* execute(capability, action) returns success=False and does not raise, for
\* every capability/action pair the device declares, in whatever local
\* state the device object is.
C1_FailSoftExecute ==
    (/\ last.op = "execute"
     /\ ~last.net.reachable
     /\ Declares(last.pre, last.capability, last.action))
    => (~last.raised /\ ~last.ret.success)

\* C2: idempotent connect. After any sequence of connects and reconnects no
\* capability name appears twice in the device's capability list.
C2_IdempotentConnect ==
    \A i, j \in DOMAIN dev.capabilities :
        i # j => dev.capabilities[i].name # dev.capabilities[j].name

\* C3: end-to-end Roku scenario. Right after get_device_adapter built the
\* RokuDevice of a reachable device, its commands listing includes power.on,
\* playback.play and volume.up.
C3_RokuCommandsListed ==
    (/\ last.op = "get_device_adapter"
     /\ disc.protocol = "roku"
     /\ last.net.reachable)
    => {[capability |-> "power", action |-> "on"],
        [capability |-> "playback", action |-> "play"],
        [capability |-> "volume", action |-> "up"]}
          \subseteq Range(get_all_commands(dev.capabilities))

\* C4: execute() on a Disconnected device makes exactly one connect attempt.
\* If it fails, execute returns a failure, puts nothing on the wire but the
\* one failed fetch and leaves the device Disconnected; if it succeeds the
\* device is Connected, its capabilities were set up exactly once and the
\* requests after the connect handshake contain no request twice.
C4_SingleReconnect ==
    (last.op = "execute" /\ ~last.pre.connected) =>
        /\ ~last.raised
        /\ IF dev.connected
           THEN /\ NumConnects(dev) = NumConnects(last.pre) + 1
                /\ Len(last.reqs) >= Len(ConnectRequests(dev.kind))
                /\ SubSeq(last.reqs, 1, Len(ConnectRequests(dev.kind)))
                      = ConnectRequests(dev.kind)
                /\ NoRepeat(SubSeq(last.reqs,
                                   Len(ConnectRequests(dev.kind)) + 1,
                                   Len(last.reqs)))
           ELSE /\ ~last.ret.success
                /\ last.reqs = <<ConnectRequests(dev.kind)[1]>>
                /\ dev.capabilities = last.pre.capabilities

\* a Disconnected device reconnected by execute, which then sent the action
C4_Witness ==
    /\ last.op = "execute"
    /\ ~last.pre.connected
    /\ dev.connected
    /\ last.ret.success
    /\ Len(last.reqs) > Len(ConnectRequests(dev.kind))

\* the description / device-info fetch of a connect() failed or its body
\* could not be parsed
FetchFailed(kind, net) ==
    \/ ~net.reachable
    \/ kind = "upnp" /\ ~net.desc.ok
    \/ kind = "roku" /\ ~net.infoOk

\* C5: connect() never raises. When the fetch fails or the body cannot be
\* parsed it returns False, leaves the device Disconnected with
\* state.is_online False and adds no capability.
C5_ConnectFailSoft ==
    (last.op = "connect" /\ FetchFailed(dev.kind, last.net)) =>
        /\ ~last.raised
        /\ last.ret = Some(FALSE)
        /\ ~dev.connected
        /\ ~dev.state.is_online
        /\ dev.capabilities = last.pre.capabilities

\* connect() failed on a device that was Connected, with an unparsable body
C5_Witness ==
    /\ last.op = "connect"
    /\ last.net.reachable
    /\ FetchFailed(dev.kind, last.net)
    /\ last.pre.connected
    /\ last.pre.capabilities # <<>>
    /\ last.ret = Some(FALSE)

\* C6: on a connected device, execute(c, a) with a capability/action pair
\* the device does not declare returns a failure with a non-empty error,
\* does not raise and sends no request.
C6_UnknownRejected ==
    (/\ last.op = "execute"
     /\ last.pre.connected
     /\ ~Declares(last.pre, last.capability, last.action))
    => /\ ~last.raised
       /\ ~last.ret.success
       /\ last.ret.error # None
       /\ last.reqs = <<>>

\* an action that needs an argument was invoked without it
MissingArgument(kind, capability, action, kwargs) ==
    \/ kind = "upnp" /\ capability = "volume" /\ action = "set"
          /\ "level" \notin DOMAIN kwargs
    \/ kind = "roku" /\ capability = "key" /\ action = "press"
          /\ "key" \notin DOMAIN kwargs
    \/ kind = "roku" /\ capability = "app" /\ action = "launch"
          /\ "name" \notin DOMAIN kwargs

\* C7: an action that needs an argument and is invoked without it returns a
\* failure with a message and sends no request to the device.
C7_MissingArgumentRejected ==
    (/\ last.op = "execute"
     /\ last.pre.connected
     /\ MissingArgument(dev.kind, last.capability, last.action, last.kwargs))
    => /\ ~last.raised
       /\ ~last.ret.success
       /\ last.ret.error # None
       /\ last.reqs = <<>>

\* C12: get_device_adapter returns None for a record whose protocol is
\* neither "upnp" nor "roku" and for a "upnp" record that has no location or
\* whose connect() fails; a UPnP device it returns is Connected with
\* is_online true; a "roku" record always yields a RokuDevice, built without
\* a network request and left Disconnected.
C12_AdapterFactory ==
    last.op = "get_device_adapter" =>
        /\ ~last.raised
        /\ disc.protocol \notin {"upnp", "roku"} => dev = NoDevice
        /\ (/\ disc.protocol = "upnp"
            /\ (disc.location = "" \/ FetchFailed("upnp", last.net)))
           => dev = NoDevice
        /\ dev.kind = "upnp" =>
              /\ disc.protocol = "upnp"
              /\ dev.connected
              /\ dev.state.is_online
        /\ disc.protocol = "roku" =>
              /\ dev.kind = "roku"
              /\ dev.ip_address = disc.ip_address
              /\ last.reqs = <<>>
              /\ ~dev.connected

\* a "upnp" record with a location whose description could not be fetched
C12_Witness ==
    /\ last.op = "get_device_adapter"
    /\ disc.protocol = "upnp"
    /\ disc.location # ""
    /\ FetchFailed("upnp", last.net)
    /\ last.reqs # <<>>
    /\ dev = NoDevice

\* C13: the DeviceState of a device (is_online and the values mapping) is
\* mutated only by refresh_state(): connect(), disconnect(), is_available()
\* and execute() leave it unchanged.
C13_StateOnlyByRefresh ==
    last.op \in {"connect", "disconnect", "is_available", "execute"}
        => dev.state = last.pre.state

\* the device declares a capability of this name
DeclaresCapability(d, name) ==
    \E i \in DOMAIN d.capabilities : d.capabilities[i].name = name

\* the description lists a service of this kind
ListsService(desc, key) ==
    \E i \in DOMAIN desc.services :
        ServiceKey(desc.services[i].serviceType) = key

\* C14: after every successful UPnP connect(), a reconnect after the
\* description changed included, the device declares volume iff the
\* description just fetched lists a RenderingControl service, declares
\* playback and now_playing iff it lists an AVTransport service, and
\* declares power.
C14_CapabilitiesFollowDescription ==
    (/\ last.op = "connect"
     /\ dev.kind = "upnp"
     /\ last.ret = Some(TRUE))
    => /\ DeclaresCapability(dev, "volume")
            <=> ListsService(last.net.desc, "RenderingControl")
       /\ DeclaresCapability(dev, "playback")
            <=> ListsService(last.net.desc, "AVTransport")
       /\ DeclaresCapability(dev, "now_playing")
            <=> ListsService(last.net.desc, "AVTransport")
       /\ DeclaresCapability(dev, "power")

\* the commands of the Roku adapter that stand for one key of the remote
KeypressCommand(capability, action, kwargs) ==
    \/ capability = "power" /\ action \in {"on", "off", "toggle"}
    \/ capability = "playback"
          /\ action \in {"play", "pause", "stop", "next", "previous"}
    \/ capability = "volume" /\ action \in {"up", "down", "mute"}
    \/ capability = "navigate"
          /\ action \in {"up", "down", "left", "right", "select", "back",
                         "home"}
    \/ /\ capability = "key"
       /\ action = "press"
       /\ "key" \in DOMAIN kwargs
       /\ kwargs["key"].t = "str"
       /\ KEYS(kwargs["key"].s) # ""

\* the key the adapter's tables give for a command: the KEYS table for
\* power, volume, navigate and key.press, the playback table for playback
ExpectedKey(capability, action, kwargs) ==
    CASE capability = "power" ->
            KEYS(CASE action = "on" -> "power_on"
                   [] action = "off" -> "power_off"
                   [] OTHER -> "power")
      [] capability = "volume" ->
            KEYS(CASE action = "up" -> "volume_up"
                   [] action = "down" -> "volume_down"
                   [] OTHER -> "mute")
      [] capability = "navigate" -> KEYS(action)
      [] capability = "key" -> KEYS(kwargs["key"].s)
      [] OTHER -> Roku_playback_key(action)

\* C15: on a connected Roku device, each execute of power.on/off/toggle,
\* playback.*, volume.up/down/mute, navigate.* or key.press with a known
\* key sends exactly one request, a POST to /keypress/{Key} with the key of
\* the adapter's table and an empty body, and returns success=True iff that
\* POST did not fail.
C15_RokuKeypress ==
    (/\ last.op = "execute"
     /\ dev.kind = "roku"
     /\ last.pre.connected
     /\ KeypressCommand(last.capability, last.action, last.kwargs))
    => /\ ~last.raised
       /\ last.reqs =
            <<[kind |-> "POST", target |-> "keypress",
               arg |-> ExpectedKey(last.capability, last.action, last.kwargs),
               n |-> 0, body |-> Some("")]>>
       /\ last.capability = "navigate" /\ last.action = "left"
            => last.reqs[1].arg = "Left"
       /\ last.capability = "power" /\ last.action = "on"
            => last.reqs[1].arg = "PowerOn"
       /\ last.ret.success <=> last.net.reachable
       /\ last.ret.success => last.ret.error = None

\* navigate.left on a connected Roku whose POST failed
C15_Witness ==
    /\ last.op = "execute"
    /\ dev.kind = "roku"
    /\ last.pre.connected
    /\ last.capability = "navigate"
    /\ last.action = "left"
    /\ ~last.net.reachable
    /\ Len(last.reqs) = 1
    /\ last.reqs[1].arg = "Left"
    /\ ~last.ret.success

\* the GetVolume request went out
SentGetVolume(reqs) ==
    \E i \in DOMAIN reqs : reqs[i].kind = "SOAP" /\ reqs[i].target = "GetVolume"

\* the cached volume of a device state: None when there is none
CachedVolume(state) ==
    IF "volume" \in DOMAIN state.values THEN Some(state.values["volume"])
    ELSE None

\* C16: UPnP volume "get". When the GetVolume response carries
\* <CurrentVolume>n</CurrentVolume>, execute returns success with the
\* integer n and stores n under "volume" in the device state; when the
\* request fails or the response has no CurrentVolume element, it returns
\* success=False and leaves the cached volume unchanged.
C16_VolumeGet ==
    (/\ last.op = "execute"
     /\ dev.kind = "upnp"
     /\ last.capability = "volume"
     /\ last.action = "get")
    => /\ ~last.raised
       /\ (/\ SentGetVolume(last.reqs)
           /\ last.net.reachable
           /\ last.net.volResp = "<CurrentVolume>42</CurrentVolume>")
          => /\ last.ret = [success |-> TRUE, value |-> Some(PyInt(42)),
                            error |-> None]
             /\ CachedVolume(dev.state) = Some(PyInt(42))
       /\ (\/ ~last.net.reachable
           \/ last.net.volResp \in {"<s:Fault/>", ""})
          => /\ ~last.ret.success
             /\ CachedVolume(dev.state) = CachedVolume(last.pre.state)

\* the volume read from the device replaced another cached volume
C16_Witness ==
    /\ last.op = "execute"
    /\ last.capability = "volume"
    /\ last.action = "get"
    /\ SentGetVolume(last.reqs)
    /\ last.ret.success
    /\ CachedVolume(last.pre.state) \notin {None, Some(PyInt(42))}
    /\ CachedVolume(dev.state) = Some(PyInt(42))

\* C18: every ActionResult returned by execute() of a UPnP or Roku device is
\* either a success carrying no error (success=True, error=None) or a
\* failure carrying an error message and no value (success=False, error
\* set, value=None).
C18_ResultShape ==
    last.op = "execute" =>
        /\ ~last.raised
        /\ \/ last.ret.success /\ last.ret.error = None
           \/ /\ ~last.ret.success
              /\ last.ret.error # None
              /\ last.ret.value = None

\* an exception raised inside a handler came back as a failure result
C18_Witness ==
    /\ last.op = "execute"
    /\ last.pre.connected
    /\ ~last.ret.success
    /\ last.ret.error \in {Some("ValueError"), Some("TypeError"),
                           Some("AttributeError")}
    /\ last.ret.value = None

\* the positions of the SetVolume requests among the requests of a call
SetVolumes(reqs) ==
    {i \in DOMAIN reqs : reqs[i].kind = "SOAP" /\ reqs[i].target = "SetVolume"}

\* the step of a volume "up" / "down" call: 5 unless given
StepOf(kwargs) == KwGet(kwargs, "step", PyInt(5))

\* the volume the device reported during the call: None when no GetVolume
\* was sent or when it brought no number back
ReadVolume(reqs, net) ==
    IF /\ SentGetVolume(reqs)
       /\ net.reachable
       /\ net.volResp = "<CurrentVolume>42</CurrentVolume>"
    THEN Some(PyInt(42)) ELSE None

\* the volume a call can know: the cached one, else the one just read
KnownVolume(pre, reqs, net) ==
    IF CachedVolume(pre.state) # None THEN CachedVolume(pre.state)
    ELSE ReadVolume(reqs, net)

\* C24: UPnP volume "up" and "down" (step absent or a non-negative integer,
\* device connected with a RenderingControl service) send a GetVolume
\* request iff the device state has no cached volume, and then exactly one
\* SetVolume whose level is min(100, current + step) for "up" and
\* max(0, current - step) for "down", where current is the volume that was
\* cached or has just been read from the device; without such a volume no
\* SetVolume is sent.
C24_VolumeAdjust ==
    (/\ last.op = "execute"
     /\ dev.kind = "upnp"
     /\ last.pre.connected
     /\ "RenderingControl" \in DOMAIN last.pre.services
     /\ last.capability = "volume"
     /\ last.action \in {"up", "down"}
     /\ StepOf(last.kwargs).t = "int"
     /\ StepOf(last.kwargs).i >= 0)
    => LET current == KnownVolume(last.pre, last.reqs, last.net)
           step == StepOf(last.kwargs).i
       IN /\ SentGetVolume(last.reqs) <=> CachedVolume(last.pre.state) = None
          /\ current # None
             => /\ Cardinality(SetVolumes(last.reqs)) = 1
                /\ \A i \in SetVolumes(last.reqs) :
                     last.reqs[i].n = IF last.action = "up"
                                      THEN Min(100, current[1].i + step)
                                      ELSE Max(0, current[1].i - step)
          /\ current = None => SetVolumes(last.reqs) = {}

\* C27: for every integer level and step, negative ones and ones above 100
\* included, every SetVolume request sent by the UPnP volume actions "set",
\* "up" and "down" carries a DesiredVolume within 0..100, and the volume
\* cached after such an action is within 0..100.
C27_VolumeClamped ==
    (/\ last.op = "execute"
     /\ dev.kind = "upnp"
     /\ last.capability = "volume"
     /\ \/ /\ last.action = "set"
           /\ KwGet(last.kwargs, "level", PyNone).t = "int"
        \/ /\ last.action \in {"up", "down"}
           /\ StepOf(last.kwargs).t = "int")
    => /\ \A i \in SetVolumes(last.reqs) : last.reqs[i].n \in 0..100
       /\ CachedVolume(dev.state) # None
          => /\ CachedVolume(dev.state)[1].t = "int"
             /\ CachedVolume(dev.state)[1].i \in 0..100

\* "down" by a negative step from 42 would reach 102: 100 was sent and cached
C27_Witness ==
    /\ last.op = "execute"
    /\ last.capability = "volume"
    /\ last.action = "down"
    /\ StepOf(last.kwargs) = PyInt(-60)
    /\ CachedVolume(last.pre.state) = Some(PyInt(42))
    /\ \E i \in SetVolumes(last.reqs) : last.reqs[i].n = 100
    /\ CachedVolume(dev.state) = Some(PyInt(100))

----------------------------------------------------------------------------
(* discovery.py: DeviceDiscovery.discover_all and the SSDP probes *)

Headers(location, server, st, usn) ==
    [LOCATION |-> location, SERVER |-> server, ST |-> st, USN |-> usn]

Datagram(addr, headers) == [addr |-> addr, headers |-> headers]

\* the words of the lookup table a header value contains ("X in value");
\* the match is case sensitive, "roku:ecp" does not contain "Roku"
Words(value) ==
    CASE value = "Sonos/1.0 UPnP/1.0" -> {"Sonos"}
      [] value = "Roku/9.0 UPnP/1.0" -> {"Roku"}
      [] value = "urn:schemas-upnp-org:device:MediaRenderer:1"
            -> {"MediaRenderer"}
      [] value = "uuid:1::urn:schemas-upnp-org:device:MediaServer:1"
            -> {"MediaServer"}
      [] OTHER -> {}

\* server.split("/")[0]
BeforeSlash(server) ==
    CASE server = "Sonos/1.0 UPnP/1.0" -> "Sonos"
      [] server = "Roku/9.0 UPnP/1.0" -> "Roku"
      [] OTHER -> server

\* DeviceDiscovery._parse_ssdp_response: None when there is no LOCATION
parse_ssdp_response(headers, ip_address) ==
    LET st == Words(headers.ST)
        usn == Words(headers.USN)
        server == Words(headers.SERVER)
        device_type ==
            CASE "MediaRenderer" \in st \cup usn -> "speaker"
              [] "MediaRenderer" \notin st \cup usn
                    /\ "MediaServer" \in st \cup usn -> "media_server"
              [] "MediaRenderer" \notin st \cup usn
                    /\ "MediaServer" \notin st \cup usn
                    /\ "RenderingControl" \in st -> "speaker"
              [] OTHER -> "unknown"
        manufacturer ==
            CASE "Bose" \in server -> Some("Bose")
              [] "Bose" \notin server /\ "Sonos" \in server -> Some("Sonos")
              [] {"Bose", "Sonos"} \cap server = {} /\ "Samsung" \in server
                    -> Some("Samsung")
              [] {"Bose", "Sonos", "Samsung"} \cap server = {}
                    /\ "LG" \in server -> Some("LG")
              [] {"Bose", "Sonos", "Samsung", "LG"} \cap server = {}
                    /\ "Roku" \in server -> Some("Roku")
              [] OTHER -> None
    IN IF headers.LOCATION = "" THEN None
       ELSE Some(DiscoveredDevice(ip_address, "upnp", device_type,
                                  BeforeSlash(headers.SERVER), manufacturer,
                                  headers.LOCATION))

\* the by_ip loop of discover_upnp: an insertion-ordered dict keyed by IP,
\* an entry is replaced only by a record with a location when it has none
RECURSIVE ByIP(_, _)
ByIP(by_ip, devices) ==
    IF devices = <<>> THEN by_ip
    ELSE LET d == Head(devices)
             at == {i \in DOMAIN by_ip : by_ip[i].ip_address = d.ip_address}
         IN ByIP(IF at = {} THEN Append(by_ip, d)
                 ELSE IF d.location # ""
                         /\ by_ip[CHOOSE i \in at : TRUE].location = ""
                 THEN [i \in DOMAIN by_ip |-> IF i \in at THEN d ELSE by_ip[i]]
                 ELSE by_ip,
                 Tail(devices))

\* discover_upnp after the search: list(by_ip.values())
discover_upnp(devices) == ByIP(<<>>, devices)

\* discover_roku after the search: every record is marked as a Roku
discover_roku(devices) ==
    [i \in DOMAIN devices |->
        [devices[i] EXCEPT !.protocol = "roku", !.device_type = "streaming",
                           !.manufacturer = Some("Roku")]]

\* the first loop of discover_all: the results that are lists, concatenated
\* in the order of the gather arguments
AllDevices(results) ==
    (IF results["upnp"].pc = "done" THEN results["upnp"].result ELSE <<>>)
    \o (IF results["roku"].pc = "done" THEN results["roku"].result ELSE <<>>)

\* a dedup that lets a later record of an IP replace the one kept
RECURSIVE UniqueDevicesKeepLast(_, _, _)
UniqueDevicesKeepLast(all_devices, seen_ips, unique_devices) ==
    IF all_devices = <<>> THEN unique_devices
    ELSE LET device == Head(all_devices)
         IN IF device.ip_address \notin seen_ips
            THEN UniqueDevicesKeepLast(Tail(all_devices),
                                       seen_ips \cup {device.ip_address},
                                       Append(unique_devices, device))
            ELSE UniqueDevicesKeepLast(
                    Tail(all_devices), seen_ips,
                    [i \in DOMAIN unique_devices |->
                        IF unique_devices[i].ip_address = device.ip_address
                        THEN device ELSE unique_devices[i]])

\* the second loop of discover_all: keep the first record of every IP
RECURSIVE UniqueDevices(_, _, _)
UniqueDevices(all_devices, seen_ips, unique_devices) ==
    IF all_devices = <<>> THEN unique_devices
    ELSE LET device == Head(all_devices)
         IN IF device.ip_address \notin seen_ips
            THEN UniqueDevices(Tail(all_devices),
                               seen_ips \cup {device.ip_address},
                               Append(unique_devices, device))
            ELSE UniqueDevices(Tail(all_devices), seen_ips, unique_devices)

\* a gather without return_exceptions: the first exception is raised
GatherRaisesFirst(results) == \E p \in DOMAIN results : results[p].pc = "raised"

\* asyncio.gather(..., return_exceptions=True): an exception of a task is a
\* result like any other, the gather itself does not raise
GatherRaises(results) == FALSE

\* self._discovered after the second loop
RECURSIVE Discovered(_, _)
Discovered(discovered, unique_devices) ==
    IF unique_devices = <<>> THEN discovered
    ELSE Discovered((Head(unique_devices).ip_address :> Head(unique_devices))
                        @@ discovered,
                    Tail(unique_devices))

\* the replies the network may deliver to a probe's socket
Replies ==
    { Datagram(ip, h) :
        ip \in {"10.0.0.5", "10.0.0.6"},
        h \in { Headers("", "Sonos/1.0 UPnP/1.0",
                        "urn:schemas-upnp-org:device:MediaRenderer:1", ""),
                Headers("http://dev/desc.xml", "Sonos/1.0 UPnP/1.0",
                        "urn:schemas-upnp-org:device:MediaRenderer:1", ""),
                Headers("http://dev:8060/", "Roku/9.0 UPnP/1.0", "roku:ecp",
                        "uuid:roku:ecp:1"),
                Headers("http://dev/desc.xml", "", "upnp:rootdevice",
                        "uuid:1::urn:schemas-upnp-org:device:MediaServer:1") } }

Probes == {"upnp", "roku"}

\* discover_all() is called: gather makes one task per probe, in the order
\* of its arguments
InitDiscovery ==
    /\ disc = DiscoveredDevice("10.0.0.5", "roku", "streaming", "",
                               Some("Roku"), "http://dev:8060/")
    /\ dev = NoDevice
    /\ last = NoCall
    /\ loop = [ready |-> <<"upnp", "roku">>, now |-> 0]
    /\ probe = [p \in Probes |-> [NoProbe EXCEPT !.pc = "ready"]]
    /\ found = [NoFound EXCEPT !.pc = "gather"]
    /\ cache = NoCache
    /\ cmd = NoCmd
    /\ cfg = NoCfg
    /\ srv = NoSrv
    /\ calc = NoCalc

\* The event loop runs the task at the head of its ready queue.  A task
\* gives the thread back only at an await that suspends; _ssdp_search has
\* none (sendto and recvfrom are blocking socket calls), so a probe keeps
\* the head of the queue until it returns or raises.
Scheduled(p) == loop.ready # <<>> /\ Head(loop.ready) = p

\* the task of probe p ends: the next ready task gets the thread
TaskEnds == [loop EXCEPT !.ready = Tail(@)]

\* _ssdp_search up to sock.sendto; an OSError there leaves _ssdp_search,
\* discover_upnp catches it (devices = []), discover_roku does not
SsdpSend(p) ==
    /\ Scheduled(p)
    /\ probe[p].pc = "ready"
    /\ \E ok \in BOOLEAN :
         IF ok
         THEN /\ probe' = [probe EXCEPT ![p].pc = "recv",
                                        ![p].started = Some(loop.now),
                                        ![p].end_time = loop.now + MaxSlices]
              /\ UNCHANGED loop
         ELSE /\ probe' = [probe EXCEPT
                             ![p].pc = IF p = "upnp" THEN "done" ELSE "raised",
                             ![p].result = IF p = "upnp"
                                           THEN discover_upnp(<<>>) ELSE <<>>]
              /\ loop' = TaskEnds
    /\ UNCHANGED <<control, tools, found, cfgsrv>>

\* one iteration of the receive loop in which a datagram arrives
SsdpReceive(p) ==
    /\ Scheduled(p)
    /\ probe[p].pc = "recv"
    /\ loop.now < probe[p].end_time
    /\ Len(probe["upnp"].devices) + Len(probe["roku"].devices) < MaxReplies
    /\ \E dg \in Replies :
         LET device == parse_ssdp_response(dg.headers, dg.addr)
         IN probe' = [probe EXCEPT ![p].devices =
                         IF device # None THEN Append(@, device[1]) ELSE @]
    /\ UNCHANGED <<control, tools, loop, found, cfgsrv>>

\* one iteration of the receive loop in which recvfrom times out (0.5 s)
SsdpTimeout(p) ==
    /\ Scheduled(p)
    /\ probe[p].pc = "recv"
    /\ loop.now < probe[p].end_time
    /\ loop' = [loop EXCEPT !.now = @ + 1]
    /\ UNCHANGED <<control, tools, probe, found, cfgsrv>>

\* the receive loop ends; discover_upnp / discover_roku return their list
SsdpReturn(p) ==
    /\ Scheduled(p)
    /\ probe[p].pc = "recv"
    /\ loop.now >= probe[p].end_time
    /\ probe' = [probe EXCEPT
                    ![p].pc = "done",
                    ![p].finished = Some(loop.now),
                    ![p].result = IF p = "upnp"
                                  THEN discover_upnp(probe[p].devices)
                                  ELSE discover_roku(probe[p].devices)]
    /\ loop' = TaskEnds
    /\ UNCHANGED <<control, tools, found, cfgsrv>>

\* both tasks are over: discover_all collects, deduplicates and returns
Gather ==
    /\ found.pc = "gather"
    /\ loop.ready = <<>>
    /\ LET unique_devices == UniqueDevices(AllDevices(probe), {}, <<>>)
       IN found' =
            IF GatherRaises(probe) THEN [found EXCEPT !.pc = "raised"]
            ELSE [found EXCEPT !.pc = "done", !.unique = unique_devices,
                               !.discovered =
                                    Discovered(<<>>, unique_devices)]
    /\ UNCHANGED <<control, tools, loop, probe, cfgsrv>>

\* discover_and_create_devices after discover_all() returned: one adapter
\* is asked for per record, in the order of the list
CreateDevices ==
    /\ found.pc = "done"
    /\ ~found.created
    /\ \E nets \in [DOMAIN found.unique -> UPnPNets(TRUE, FALSE, FALSE)] :
         found' = [found EXCEPT
                     !.created = TRUE,
                     !.nets = nets,
                     !.devices = create_devices(found.unique, nets, <<>>)]
    /\ UNCHANGED <<control, tools, loop, probe, cfgsrv>>

NextDiscovery ==
    \/ \E p \in Probes : SsdpSend(p)
    \/ \E p \in Probes : SsdpReceive(p)
    \/ \E p \in Probes : SsdpTimeout(p)
    \/ \E p \in Probes : SsdpReturn(p)
    \/ Gather
    \/ CreateDevices

SpecDiscovery == InitDiscovery /\ [][NextDiscovery]_vars

----------------------------------------------------------------------------
(* Properties of discover_all, checked under SpecDiscovery *)

\* what gather hands back for probe p when it is a list
ProbeResult(p) == IF probe[p].pc = "done" THEN probe[p].result ELSE <<>>

\* the probe failed with an exception (for the UPnP probe the one that
\* discover_upnp swallows: the search never got to its receive loop)
ProbeFailed(p) ==
    \/ probe[p].pc = "raised"
    \/ p = "upnp" /\ probe[p].pc = "done" /\ probe[p].started = None

\* the index in list of the first record with this IP address
FirstIndex(list, ip_address) ==
    CHOOSE k \in DOMAIN list :
        /\ list[k].ip_address = ip_address
        /\ \A m \in 1..(k - 1) : list[m].ip_address # ip_address

\* unique is list with, for every IP address, only the first record kept
KeepsFirstOfEachIP(unique, list) ==
    /\ {unique[i].ip_address : i \in DOMAIN unique}
          = {list[k].ip_address : k \in DOMAIN list}
    /\ \A i, j \in DOMAIN unique :
          i # j => unique[i].ip_address # unique[j].ip_address
    /\ \A i \in DOMAIN unique :
          unique[i] = list[FirstIndex(list, unique[i].ip_address)]
    /\ \A i, j \in DOMAIN unique :
          i < j => FirstIndex(list, unique[i].ip_address)
                      < FirstIndex(list, unique[j].ip_address)

\* C8: dedup by IP. The list discover_all() returns has exactly one entry
\* for every IP address that appears in some probe result, and that entry
\* is the first one in the gathered order (UPnP results, then Roku results).
C8_DedupByIP ==
    found.pc = "done" =>
        KeepsFirstOfEachIP(found.unique,
                           ProbeResult("upnp") \o ProbeResult("roku"))

\* both probes returned a record for the same IP address
C8_Witness ==
    /\ found.pc = "done"
    /\ \E i \in DOMAIN ProbeResult("upnp") :
       \E j \in DOMAIN ProbeResult("roku") :
          /\ ProbeResult("upnp")[i].ip_address
                = ProbeResult("roku")[j].ip_address
          /\ ProbeResult("upnp")[i] \in Range(found.unique)
          /\ ProbeResult("roku")[j] \notin Range(found.unique)

\* C28: a device that answered the roku:ecp probe is listed by
\* discover_all() with protocol "roku", device_type "streaming" and
\* manufacturer "Roku", also when the same IP address answered the generic
\* ssdp:all probe.
C28_RokuListedAsRoku ==
    found.pc = "done" =>
        \A j \in DOMAIN ProbeResult("roku") :
        \E i \in DOMAIN found.unique :
            /\ found.unique[i].ip_address
                  = ProbeResult("roku")[j].ip_address
            /\ found.unique[i].protocol = "roku"
            /\ found.unique[i].device_type = "streaming"
            /\ found.unique[i].manufacturer = Some("Roku")

\* C9: a probe that raises does not abort discover_all(): it does not raise
\* and returns the deduplicated results of the other probe (the empty list
\* when both fail).
C9_ProbeFailureTolerated ==
    (/\ loop.ready = <<>>
     /\ found.pc # "gather"
     /\ \E p \in Probes : ProbeFailed(p))
    => /\ found.pc = "done"
       /\ KeepsFirstOfEachIP(
             found.unique,
             (IF ProbeFailed("upnp") THEN <<>> ELSE probe["upnp"].result)
             \o (IF ProbeFailed("roku") THEN <<>> ELSE probe["roku"].result))

\* the Roku probe raised and the records of the UPnP probe were returned
C9_Witness ==
    /\ found.pc = "done"
    /\ probe["roku"].pc = "raised"
    /\ probe["upnp"].result # <<>>
    /\ found.unique = probe["upnp"].result

\* C10: the probes run concurrently. The Roku probe sends its M-SEARCH and
\* starts receiving before the receive loop of the UPnP probe has ended.
C10_ProbesOverlap ==
    (probe["roku"].started # None /\ probe["upnp"].finished # None)
    => probe["roku"].started[1] < probe["upnp"].finished[1]

\* the adapter discover_and_create_devices got for its i-th record
Built(i) == get_device_adapter(found.unique[i], found.nets[i])

\* the records whose adapter was built
Kept == {i \in DOMAIN found.unique :
            Built(i).exc = None /\ Built(i).dev.kind # "none"}

\* C11: discover_and_create_devices() returns partial results. A record for
\* which get_device_adapter raises or returns None is skipped, the adapters
\* of all the other records are returned in discovery order, at most one
\* per IP address, and the call does not raise.
C11_PartialResults ==
    found.created =>
        /\ Len(found.devices) = Cardinality(Kept)
        /\ \A i \in Kept :
              found.devices[Cardinality({j \in Kept : j <= i})] = Built(i).dev
        /\ \A k, l \in DOMAIN found.devices :
              k # l => found.devices[k].ip_address
                          # found.devices[l].ip_address

\* the first record gave no adapter and the adapter of the second was returned
C11_Witness ==
    /\ found.created
    /\ Len(found.unique) = 2
    /\ 1 \notin Kept
    /\ 2 \in Kept
    /\ found.devices = <<Built(2).dev>>

----------------------------------------------------------------------------
(* Parameter.validate as a function of its arguments *)

\* the parameters validated: every type with and without each constraint
Parameters ==
    { Parameter("p", t, r, lo, hi, c) :
        t \in ParameterTypes, r \in BOOLEAN, lo \in {None, Some(0), Some(8)},
        hi \in {None, Some(10), Some(3)}, c \in {<<>>, <<"a", "b">>} }

\* the candidate values: None, numbers in and out of range, strings in and
\* out of the choices, a boolean
Candidates ==
    { PyNone, PyInt(5), PyInt(-1), PyInt(150), PyFloat(50), PyStr("a"),
      PyStr("z"), PyBool(TRUE) }

InitValidate ==
    /\ disc = DiscoveredDevice("10.0.0.5", "roku", "streaming", "",
                               Some("Roku"), "http://dev:8060/")
    /\ dev = NoDevice
    /\ last = NoCall
    /\ loop = NoLoop
    /\ probe = [p \in {"upnp", "roku"} |-> NoProbe]
    /\ found = NoFound
    /\ cache = NoCache
    /\ cmd = NoCmd
    /\ cfg = NoCfg
    /\ srv = NoSrv
    /\ \E p \in Parameters, value \in Candidates :
         calc = [fn |-> "validate", args |-> [p |-> p, value |-> value],
                 out |-> <<>>, done |-> FALSE]

\* is_valid, message = parameter.validate(value)
Validate ==
    /\ calc.fn = "validate"
    /\ ~calc.done
    /\ calc' = [calc EXCEPT !.out = validate(calc.args.p, calc.args.value),
                            !.done = TRUE]
    /\ UNCHANGED <<control, discovery, cache, cmd, cfgsrv>>

NextValidate == Validate

SpecValidate == InitValidate /\ [][NextValidate]_vars

\* the rule a message of validate stands for is violated by the value
RuleViolated(p, value, msg) ==
    CASE msg = "is required" -> value = PyNone /\ p.required
      [] msg = "Expected integer" ->
            p.param_type = "integer" /\ value.t \notin {"int", "bool"}
      [] msg = "Expected number" ->
            /\ p.param_type \in {"float", "percentage", "volume"}
            /\ ~IsNumber(value)
      [] msg = "Expected boolean" ->
            p.param_type = "boolean" /\ value.t # "bool"
      [] msg = "Expected string" ->
            p.param_type = "string" /\ value.t # "str"
      [] msg = "must be between 0 and 100" ->
            /\ p.param_type \in {"percentage", "volume"}
            /\ IsNumber(value)
            /\ (value.i < 0 \/ value.i > 100)
      [] msg = "must be one of" ->
            /\ p.param_type = "enum"
            /\ p.choices # <<>>
            /\ \A i \in DOMAIN p.choices :
                  value.t # "str" \/ p.choices[i] # value.s
      [] msg = "must be >=" ->
            /\ p.min_value # None
            /\ IsNumber(value)
            /\ value.i < p.min_value[1]
      [] msg = "must be <=" ->
            /\ p.max_value # None
            /\ IsNumber(value)
            /\ value.i > p.max_value[1]
      [] OTHER -> FALSE

\* C17: Parameter.validate(value) never raises and always returns either
\* (True, None) or (False, message), for every ParameterType, whatever
\* constraints the parameter carries and for every candidate value; a
\* returned message corresponds to a rule the value violates.
C17_ValidateTotal ==
    (calc.fn = "validate" /\ calc.done) =>
        /\ calc.out.exc = None
        /\ \/ calc.out.ok /\ calc.out.msg = None
           \/ /\ ~calc.out.ok
              /\ calc.out.msg # None
              /\ RuleViolated(calc.args.p, calc.args.value, calc.out.msg[1])

\* the checks of validate after the None check, in the order of the claim:
\* the type check (a message of the type validation), min_value, max_value
Checks ==
    << {"Expected integer", "Expected number", "Expected boolean",
        "Expected string", "must be between 0 and 100", "must be one of"},
       {"must be >="}, {"must be <="} >>

\* the value fails the k-th check
FailsCheck(p, value, k) == \E m \in Checks[k] : RuleViolated(p, value, m)

\* a number within 0..100 and within the explicit min_value / max_value
WithinPercentage(p, value) ==
    /\ IsNumber(value)
    /\ value.i >= 0 /\ value.i <= 100
    /\ p.min_value # None => value.i >= p.min_value[1]
    /\ p.max_value # None => value.i <= p.max_value[1]

----------------------------------------------------------------------------
(* tools/control.py: the device cache *)

\* name.lower().replace(" ", "-").replace("(", "").replace(")", "")
NormalizeName(name) ==
    CASE name = "Living Room" -> "living-room"
      [] name = "Sonos" -> "sonos"
      [] name = "Roku" -> "roku"
      [] name = "UPnP Device (10.0.0.5)" -> "upnp-device-10.0.0.5"
      [] name = "UPnP Device (10.0.0.6)" -> "upnp-device-10.0.0.6"
      [] name = "Roku (10.0.0.5)" -> "roku-10.0.0.5"
      [] name = "Roku (10.0.0.6)" -> "roku-10.0.0.6"
      [] OTHER -> name

\* name_or_ip.lower().replace(" ", "-")
NormalizeQuery(name_or_ip) ==
    CASE name_or_ip = "Living Room" -> "living-room"
      [] name_or_ip = "Sonos" -> "sonos"
      [] name_or_ip = "Roku" -> "roku"
      [] name_or_ip = "UPnP Device (10.0.0.5)" -> "upnp-device-(10.0.0.5)"
      [] name_or_ip = "UPnP Device (10.0.0.6)" -> "upnp-device-(10.0.0.6)"
      [] name_or_ip = "Roku (10.0.0.5)" -> "roku-(10.0.0.5)"
      [] name_or_ip = "Roku (10.0.0.6)" -> "roku-(10.0.0.6)"
      [] OTHER -> name_or_ip

\* the for loop of _discover_devices: the name key is written first, then
\* the IP key, and a later write replaces an earlier one
RECURSIVE CacheDevices(_, _)
CacheDevices(c, devices) ==
    IF devices = <<>> THEN c
    ELSE LET device == Head(devices)
             c1 == (NormalizeName(device.name) :> device) @@ c
             c2 == (device.ip_address :> device) @@ c1
         IN CacheDevices(c2, Tail(devices))

\* _discover_devices after discover_and_create_devices returned:
\* _device_cache.clear() and the loop
discover_devices(c, devices) == CacheDevices(NoCache, devices)

\* _get_device: None (<<>>) when neither key is in the cache
get_device(c, name_or_ip) ==
    IF NormalizeQuery(name_or_ip) \in DOMAIN c
    THEN Some(c[NormalizeQuery(name_or_ip)])
    ELSE IF name_or_ip \in DOMAIN c THEN Some(c[name_or_ip])
    ELSE None

\* the records discover_all() may return to a `discover` command
CacheRecords ==
    { DiscoveredDevice("10.0.0.5", "roku", "streaming", "Roku", Some("Roku"),
                       "http://dev:8060/"),
      DiscoveredDevice("10.0.0.5", "upnp", "unknown", "", None,
                       "http://dev/desc.xml"),
      DiscoveredDevice("10.0.0.6", "upnp", "speaker", "Sonos", Some("Sonos"),
                       "http://dev/desc.xml"),
      DiscoveredDevice("10.0.0.6", "roku", "streaming", "", Some("Roku"),
                       "http://dev:8060/") }

\* discover_all() returns at most one record per IP address
DiscoveredLists ==
    { s \in UNION {[1..n -> CacheRecords] : n \in 0..MaxDevices} :
        \A i, j \in DOMAIN s : i # j => s[i].ip_address # s[j].ip_address }

\* what the device of a record answers to the connect of its adapter: a
\* friendly name is free text, a device may be named after an address
CacheNets ==
    { Unreachable } \cup
    { Net(TRUE, Description(TRUE, n, <<RC>>), "", "", FALSE, "", None, None) :
        n \in {"", "Living Room", "10.0.0.6"} }

InitCache ==
    /\ disc = DiscoveredDevice("10.0.0.5", "roku", "streaming", "",
                               Some("Roku"), "http://dev:8060/")
    /\ dev = NoDevice
    /\ last = NoCall
    /\ loop = NoLoop
    /\ probe = [p \in {"upnp", "roku"} |-> NoProbe]
    /\ found = NoFound
    /\ cache = NoCache
    /\ cmd = NoCmd
    /\ cfg = NoCfg
    /\ srv = NoSrv
    /\ calc = NoCalc

\* devices = await _discover_devices()
DiscoverDevices ==
    /\ \E discovered \in DiscoveredLists :
       \E nets \in [DOMAIN discovered -> CacheNets] :
         LET devices == create_devices(discovered, nets, <<>>)
         IN /\ cache' = discover_devices(cache, devices)
            /\ cmd' = [op |-> "discover", devices |-> devices,
                       before |-> cache]
    /\ UNCHANGED <<control, discovery, calc, cfgsrv>>

\* device = _get_device(name_or_ip)
GetDevice ==
    /\ \E name_or_ip \in {"10.0.0.5", "10.0.0.6", "Living Room", "Roku",
                         "Sonos", "Roku (10.0.0.6)"} :
         cmd' = [op |-> "get_device",
                 devices |-> get_device(cache, name_or_ip),
                 before |-> cache]
    /\ UNCHANGED <<control, discovery, cache, calc, cfgsrv>>

NextCache ==
    \/ DiscoverDevices
    \/ GetDevice

SpecCache == InitCache /\ [][NextCache]_vars

UniqueName(devices, i) ==
    \A j \in DOMAIN devices :
        j # i => /\ NormalizeName(devices[j].name)
                      # NormalizeName(devices[i].name)
                 /\ devices[j].ip_address # NormalizeName(devices[i].name)

\* C29: after a discovery, _get_device(d.name) returns d for every
\* discovered device d whose normalized name is unique in the cache, names
\* with spaces and parentheses such as the default "Roku (10.0.0.5)"
\* included.
C29_RetrievableByName ==
    cmd.op = "discover" =>
        \A i \in DOMAIN cmd.devices :
            UniqueName(cmd.devices, i)
            => get_device(cache, cmd.devices[i].name) = Some(cmd.devices[i])

----------------------------------------------------------------------------
(* generate_wifi_qr_data as a function of its arguments *)

\* one ordinary character and the four special ones
Alphabet == {"a", ";", ",", "\"", "\\"}

Special == {";", ",", "\"", "\\"}

Strings == UNION {[1..n -> Alphabet] : n \in 0..MaxLen}

Securities == {"WPA", "WEP", "nopass", "SAE"}

InitQr ==
    /\ disc = DiscoveredDevice("10.0.0.5", "roku", "streaming", "",
                               Some("Roku"), "http://dev:8060/")
    /\ dev = NoDevice
    /\ last = NoCall
    /\ loop = NoLoop
    /\ probe = [p \in {"upnp", "roku"} |-> NoProbe]
    /\ found = NoFound
    /\ cache = NoCache
    /\ cmd = NoCmd
    /\ cfg = NoCfg
    /\ srv = NoSrv
    /\ \E ssid \in Strings, password \in {None} \cup {Some(s) : s \in Strings},
          security \in Securities, hidden \in BOOLEAN :
         calc = [fn |-> "wifi_qr",
                 args |-> [ssid |-> ssid, password |-> password,
                           security |-> security, hidden |-> hidden],
                 out |-> <<>>, done |-> FALSE]

\* data = generate_wifi_qr_data(ssid, password, security, hidden)
GenerateWifiQr ==
    /\ calc.fn = "wifi_qr"
    /\ ~calc.done
    /\ calc' = [calc EXCEPT
                  !.out = generate_wifi_qr_data(calc.args.ssid,
                                                calc.args.password,
                                                calc.args.security,
                                                calc.args.hidden),
                  !.done = TRUE]
    /\ UNCHANGED <<control, discovery, cache, cmd, cfgsrv>>

NextQr == GenerateWifiQr

SpecQr == InitQr /\ [][NextQr]_vars

\* a reader of the WIFI: string: the fields are the pieces between
\* semicolons that no backslash precedes
RECURSIVE SplitFields(_, _, _)
SplitFields(s, field, fields) ==
    IF s = <<>> THEN Append(fields, field)
    ELSE IF Head(s) = "\\" /\ Len(s) >= 2
    THEN SplitFields(Tail(Tail(s)), field \o <<s[1], s[2]>>, fields)
    ELSE IF Head(s) = ";"
    THEN SplitFields(Tail(s), <<>>, Append(fields, field))
    ELSE SplitFields(Tail(s), Append(field, Head(s)), fields)

\* the fields of a WIFI: string (the text after "WIFI:")
FieldsOf(data) == SplitFields(SubSeq(data, 6, Len(data)), <<>>, <<>>)

\* the raw values of the fields with this one-letter name
FieldValues(data, letter) ==
    { SubSeq(f, 3, Len(f)) :
        f \in { g \in Range(FieldsOf(data)) :
                  Len(g) >= 2 /\ g[1] = letter /\ g[2] = ":" } }

\* the unescaping rule: a backslash makes the next character literal
RECURSIVE Unescape(_)
Unescape(s) ==
    IF s = <<>> THEN <<>>
    ELSE IF Head(s) = "\\" /\ Len(s) >= 2
    THEN <<s[2]>> \o Unescape(Tail(Tail(s)))
    ELSE <<Head(s)>> \o Unescape(Tail(s))

\* s with a backslash put in front of each special character
RECURSIVE BackslashSpecials(_)
BackslashSpecials(s) ==
    IF s = <<>> THEN <<>>
    ELSE (IF Head(s) \in Special THEN <<"\\", Head(s)>> ELSE <<Head(s)>>)
            \o BackslashSpecials(Tail(s))

\* the call wrote a P: field
HasPassword(args) ==
    /\ args.password # None
    /\ args.password[1] # <<>>
    /\ SecType(args.security, args.password) # "nopass"

\* C20: generate_wifi_qr_data escapes SSID and password so that the string
\* parses back. Each special character (';', ',', '"', '\') is written with
\* a backslash in front of it in the S: and P: fields, and unescaping those
\* fields with the same rule returns exactly the original SSID and password.
C20_WifiQrRoundTrip ==
    (calc.fn = "wifi_qr" /\ calc.done) =>
        /\ SubSeq(calc.out, 1, 5) = <<"W", "I", "F", "I", ":">>
        /\ FieldValues(calc.out, "S") = {BackslashSpecials(calc.args.ssid)}
        /\ \A v \in FieldValues(calc.out, "S") :
              Unescape(v) = calc.args.ssid
        /\ IF HasPassword(calc.args)
           THEN /\ FieldValues(calc.out, "P")
                     = {BackslashSpecials(calc.args.password[1])}
                /\ \A v \in FieldValues(calc.out, "P") :
                      Unescape(v) = calc.args.password[1]
           ELSE FieldValues(calc.out, "P") = {}

\* an SSID with a backslash right before a semicolon, and a password with
\* special characters, were written and read back
C20_Witness ==
    /\ calc.fn = "wifi_qr"
    /\ calc.done
    /\ calc.args.ssid = <<"\\", ";">>
    /\ HasPassword(calc.args)
    /\ calc.args.password[1] = <<"\"", ",">>
    /\ FieldValues(calc.out, "S") = {<<"\\", "\\", "\\", ";">>}

----------------------------------------------------------------------------
(* services/wol.py: normalize_mac and create_magic_packet.  A MAC string   *)
(* is the sequence of its characters, a packet the sequence of its bytes.  *)

\* "0123456789ABCDEF"
HexDigits ==
    <<"0", "1", "2", "3", "4", "5", "6", "7", "8", "9",
      "A", "B", "C", "D", "E", "F">>

\* c.upper() and c.lower() on the characters of a MAC string
UpperChar(c) ==
    CASE c = "a" -> "A" [] c = "b" -> "B" [] c = "c" -> "C"
      [] c = "d" -> "D" [] c = "e" -> "E" [] c = "f" -> "F"
      [] c = "g" -> "G" [] OTHER -> c

LowerChar(c) ==
    CASE c = "A" -> "a" [] c = "B" -> "b" [] c = "C" -> "c"
      [] c = "D" -> "d" [] c = "E" -> "e" [] c = "F" -> "f"
      [] c = "G" -> "g" [] OTHER -> c

\* s.upper()
UpperStr(s) == [i \in DOMAIN s |-> UpperChar(s[i])]

\* s.split(sep) for a one-character sep: the empty parts are kept
RECURSIVE Split(_, _)
Split(s, sep) ==
    IF \A i \in DOMAIN s : s[i] # sep THEN <<s>>
    ELSE LET i == CHOOSE k \in DOMAIN s :
                    s[k] = sep /\ \A j \in 1..(k - 1) : s[j] # sep
         IN <<SubSeq(s, 1, i - 1)>> \o Split(SubSeq(s, i + 1, Len(s)), sep)

\* a padding that puts the zero after the digit
Zfill2_right(p) ==
    IF Len(p) >= 2 THEN p
    ELSE IF Len(p) = 1 THEN p \o <<"0">>
    ELSE <<"0", "0">>

\* p.zfill(2): zeros on the left, after a leading sign
Zfill2(p) ==
    IF Len(p) >= 2 THEN p
    ELSE IF Len(p) = 1
    THEN IF p[1] = "+" THEN <<"+", "0">> ELSE <<"0">> \o p
    ELSE <<"0", "0">>

\* "".join(parts)
RECURSIVE Concat(_)
Concat(parts) ==
    IF parts = <<>> THEN <<>> ELSE Head(parts) \o Concat(Tail(parts))

\* re.sub(r"[:\-\.]", "", s)
StripSeparators(s) == SelectSeq(s, LAMBDA c : c \notin {":", "-", "."})

\* ":".join(mac_clean[i : i + 2] for i in range(0, 12, 2))
ColonPairs(mac_clean) ==
    Concat([i \in 1..6 |->
              (IF i = 1 THEN <<>> ELSE <<":">>)
                 \o SubSeq(mac_clean, 2 * i - 1, 2 * i)])

\* normalize_mac: the normalized string, or the ValueError it raises
normalize_mac(mac) ==
    LET parts == Split(Replace(Replace(mac, "-", <<":">>), ".", <<":">>), ":")
        mac_clean ==
            IF Len(parts) = 6
            THEN UpperStr(Concat([i \in 1..6 |-> Zfill2(parts[i])]))
            ELSE StripSeparators(UpperStr(mac))
    IN IF Len(mac_clean) # 12 THEN [val |-> <<>>, exc |-> Some("ValueError")]
       ELSE IF \E i \in DOMAIN mac_clean : mac_clean[i] \notin Range(HexDigits)
       THEN [val |-> <<>>, exc |-> Some("ValueError")]
       ELSE [val |-> ColonPairs(mac_clean), exc |-> None]

\* the value of a hexadecimal digit
HexVal(c) == CHOOSE v \in 0..15 : HexDigits[v + 1] = UpperChar(c)

\* bytes.fromhex(s) for a string of hexadecimal digits
fromhex(s) ==
    [i \in 1..(Len(s) \div 2) |->
        16 * HexVal(s[2 * i - 1]) + HexVal(s[2 * i])]

\* b * n for a byte string b
RECURSIVE Times(_, _)
Times(b, n) == IF n = 0 THEN <<>> ELSE b \o Times(b, n - 1)

\* create_magic_packet: the packet, or the ValueError of normalize_mac
create_magic_packet(mac) ==
    LET mac_normalized == normalize_mac(mac)
        mac_bytes == fromhex(Replace(mac_normalized.val, ":", <<>>))
        magic == Times(<<255>>, 6) \o Times(mac_bytes, 16)
    IN IF mac_normalized.exc # None
       THEN [val |-> <<>>, exc |-> mac_normalized.exc]
       ELSE [val |-> magic, exc |-> None]

----------------------------------------------------------------------------
(* create_magic_packet as a function of a MAC string *)

\* the addresses written out: six bytes each
Addresses ==
    { <<170, 187, 204, 221, 238, 255>>, <<0, 12, 138, 145, 62, 179>>,
      <<0, 0, 0, 0, 0, 0>>, <<255, 255, 255, 255, 255, 255>>,
      <<1, 35, 69, 103, 137, 171>> }

\* the notations of an address: the separator, the letter case, and the
\* grouping: two digits per byte ("full"), no leading zeros ("short"), two
\* bytes per group ("pairs")
Notations ==
    { nt \in [sep : {":", "-", ".", ""}, lower : BOOLEAN,
              style : {"full", "short", "pairs"}] :
        nt.sep = "" => nt.style = "full" }

\* the digits of one byte in a notation
ByteDigits(b, nt) ==
    LET hi == HexDigits[(b \div 16) + 1]
        lo == HexDigits[(b % 16) + 1]
        digits == IF nt.style = "short" /\ hi = "0" THEN <<lo>>
                  ELSE <<hi, lo>>
    IN IF nt.lower THEN [i \in DOMAIN digits |-> LowerChar(digits[i])]
       ELSE digits

\* an address written in a notation
Render(address, nt) ==
    Concat([i \in 1..6 |->
              (IF i = 1 \/ nt.sep = "" \/ (nt.style = "pairs" /\ i % 2 = 0)
               THEN <<>> ELSE <<nt.sep>>)
                 \o ByteDigits(address[i], nt)])

\* strings that are no MAC address: too short, too long, no hex digits
NoMacs ==
    { <<"A", "A", ":", "B", "B", ":", "C", "C">>,
      <<"A", "A", ":", "B", "B", ":", "C", "C", ":", "D", "D", ":",
        "E", "E", ":", "F", "F", ":", "0", "0">>,
      <<"G", "G", ":", "H", "H", ":", "I", "I", ":", "J", "J", ":",
        "K", "K", ":", "L", "L">>,
      <<>> }

InitWol ==
    /\ disc = DiscoveredDevice("10.0.0.5", "roku", "streaming", "",
                               Some("Roku"), "http://dev:8060/")
    /\ dev = NoDevice
    /\ last = NoCall
    /\ loop = NoLoop
    /\ probe = [p \in {"upnp", "roku"} |-> NoProbe]
    /\ found = NoFound
    /\ cache = NoCache
    /\ cmd = NoCmd
    /\ cfg = NoCfg
    /\ srv = NoSrv
    /\ \/ \E address \in Addresses, nt1 \in Notations, nt2 \in Notations :
            calc = [fn |-> "wol",
                    args |-> [address |-> address,
                              mac1 |-> Render(address, nt1),
                              mac2 |-> Render(address, nt2)],
                    out |-> <<>>, done |-> FALSE]
       \/ \E mac \in NoMacs :
            calc = [fn |-> "wol",
                    args |-> [address |-> <<>>, mac1 |-> mac, mac2 |-> mac],
                    out |-> <<>>, done |-> FALSE]

\* packet1 = create_magic_packet(mac1); packet2 = create_magic_packet(mac2)
CreateMagicPacket ==
    /\ calc.fn = "wol"
    /\ ~calc.done
    /\ calc' = [calc EXCEPT
                  !.out = [p1 |-> create_magic_packet(calc.args.mac1),
                           p2 |-> create_magic_packet(calc.args.mac2)],
                  !.done = TRUE]
    /\ UNCHANGED <<control, discovery, cache, cmd, cfgsrv>>

NextWol == CreateMagicPacket

SpecWol == InitWol /\ [][NextWol]_vars

\* a packet of 102 bytes: six 0xFF, then sixteen copies of six bytes
MagicShape(packet) ==
    /\ Len(packet) = 102
    /\ \A i \in 1..6 : packet[i] = 255
    /\ \A k \in 0..15 : \A j \in 1..6 : packet[6 + 6 * k + j] = packet[6 + j]

\* C21: for every accepted MAC address, in any notation (colon-separated,
\* dash-separated, unseparated, any letter case), create_magic_packet
\* returns exactly 102 bytes: six 0xFF bytes followed by sixteen copies of
\* the six address bytes; two notations of one address give the same packet.
C21_MagicPacket ==
    (calc.fn = "wol" /\ calc.done)
    => /\ \A p \in {calc.out.p1, calc.out.p2} :
            p.exc = None
            => /\ MagicShape(p.val)
               /\ calc.args.address # <<>>
                  => SubSeq(p.val, 7, 12) = calc.args.address
       /\ (calc.out.p1.exc = None /\ calc.out.p2.exc = None)
          => calc.out.p1.val = calc.out.p2.val

\* "0:c:8a:91:3e:b3" and "000C8A913EB3" were both accepted and gave one
\* packet
C21_Witness ==
    /\ calc.fn = "wol"
    /\ calc.done
    /\ calc.args.mac1 = <<"0", ":", "c", ":", "8", "a", ":", "9", "1", ":",
                          "3", "e", ":", "b", "3">>
    /\ calc.args.mac2 = <<"0", "0", "0", "C", "8", "A", "9", "1", "3", "E",
                          "B", "3">>
    /\ calc.out.p1.exc = None
    /\ calc.out.p2.exc = None
    /\ calc.out.p1.val = calc.out.p2.val
    /\ Len(calc.out.p1.val) = 102

----------------------------------------------------------------------------
(* config.py: DeviceConfig and the devices of ConfigManager.  The devices  *)
(* file is the table it holds under "devices": None when there is no file. *)

\* DeviceConfig; ssh_user, ssh_key and notes are written like mac_address
DeviceConfig(name, mac_address, ip_address, hostname, device_type, ssh_port) ==
    [name |-> name, mac_address |-> mac_address, ip_address |-> ip_address,
     hostname |-> hostname, device_type |-> device_type,
     ssh_port |-> ssh_port]

\* "if self.mac_address:" on a str | None field
FieldSet(v) == v # PyNone /\ v # PyStr("")

\* DeviceConfig.to_dict: the optional fields are written when they are set
to_dict(d) ==
    LET keys == {"name", "device_type"}
                \cup {k \in {"mac_address", "ip_address", "hostname"} :
                        FieldSet(d[k])}
                \cup (IF d.ssh_port # 22 THEN {"ssh_port"} ELSE {})
    IN [k \in keys |->
          CASE k = "name" -> PyStr(d.name)
            [] k = "device_type" -> PyStr(d.device_type)
            [] k = "ssh_port" -> PyInt(d.ssh_port)
            [] OTHER -> d[k]]

\* DeviceConfig.from_dict(name, data)
from_dict(name, data) ==
    DeviceConfig(name,
                 KwGet(data, "mac_address", PyNone),
                 KwGet(data, "ip_address", PyNone),
                 KwGet(data, "hostname", PyNone),
                 KwGet(data, "device_type", PyStr("generic")).s,
                 KwGet(data, "ssh_port", PyInt(22)).i)

\* a manager: _devices (None before the first load) and the devices file
Manager(devices, file) == [devices |-> devices, file |-> file]

\* the empty dict
NoDevices == [n \in {} |-> PyNone]

\* ConfigManager.load_devices
Config_load_devices(m) ==
    IF m.devices # None THEN m
    ELSE IF m.file # None
    THEN [m EXCEPT !.devices =
            Some([n \in DOMAIN m.file[1] |-> from_dict(n, m.file[1][n])])]
    ELSE [m EXCEPT !.devices = Some(NoDevices)]

\* ConfigManager.save_devices
Config_save_devices(m) ==
    IF m.devices = None THEN m
    ELSE [m EXCEPT !.file =
            Some([n \in DOMAIN m.devices[1] |-> to_dict(m.devices[1][n])])]

\* devices[device.name] = device
DictSet(d, key, value) ==
    [n \in DOMAIN d \cup {key} |-> IF n = key THEN value ELSE d[n]]

\* del devices[name]
DictDel(d, key) == [n \in DOMAIN d \ {key} |-> d[n]]

\* ConfigManager.add_device
Config_add_device(m, device) ==
    LET m1 == Config_load_devices(m)
    IN Config_save_devices(
         [m1 EXCEPT !.devices = Some(DictSet(m1.devices[1], device.name,
                                             device))])

\* a remove_device that does not write the file
Config_remove_device_unsaved(m, name) ==
    LET m1 == Config_load_devices(m)
    IN IF name \in DOMAIN m1.devices[1]
       THEN [m |-> [m1 EXCEPT !.devices = Some(DictDel(m1.devices[1], name))],
             ret |-> TRUE]
       ELSE [m |-> m1, ret |-> FALSE]

\* ConfigManager.remove_device: the manager afterwards and what it returns
Config_remove_device(m, name) ==
    LET m1 == Config_load_devices(m)
    IN IF name \in DOMAIN m1.devices[1]
       THEN [m |-> Config_save_devices(
                     [m1 EXCEPT !.devices =
                                  Some(DictDel(m1.devices[1], name))]),
             ret |-> TRUE]
       ELSE [m |-> m1, ret |-> FALSE]

\* ConfigManager.clear_cache
Config_clear_cache(m) == [m EXCEPT !.devices = None]

----------------------------------------------------------------------------
(* one ConfigManager and the calls made on it *)

\* the devices a caller may add: `devices add NAME --ip .. --mac ..`
DeviceConfigs ==
    { DeviceConfig(n, mac, ip, PyNone, "generic", 22) :
        n \in {"server", "nas"},
        mac \in {PyNone, PyStr("AA:BB:CC:DD:EE:FF")},
        ip \in {PyNone, PyStr(""), PyStr("192.168.1.100"),
                PyStr("192.168.1.200")} }

\* the devices file found at construction: none, an empty one, one device
DeviceFiles ==
    { None, Some(NoDevices),
      Some(("nas" :> to_dict(DeviceConfig("nas", PyNone,
                                          PyStr("192.168.1.50"), PyNone,
                                          "server", 22)))) }

\* the manager after a call, the call, its argument, its result and the
\* devices the call found (load_devices at its start)
Called(m, op, arg, ret, before) ==
    [devices |-> m.devices, file |-> m.file, op |-> op, arg |-> arg,
     ret |-> ret, before |-> before]

InitConfig ==
    /\ disc = DiscoveredDevice("10.0.0.5", "roku", "streaming", "",
                               Some("Roku"), "http://dev:8060/")
    /\ dev = NoDevice
    /\ last = NoCall
    /\ loop = NoLoop
    /\ probe = [p \in {"upnp", "roku"} |-> NoProbe]
    /\ found = NoFound
    /\ cache = NoCache
    /\ cmd = NoCmd
    /\ calc = NoCalc
    /\ srv = NoSrv
    /\ \E file \in DeviceFiles :
         cfg = Called(Manager(None, file), "new", <<>>, <<>>, <<>>)

\* manager.add_device(device)
AddDevice ==
    /\ cfg.op # "idle"
    /\ \E device \in DeviceConfigs :
         LET m == Manager(cfg.devices, cfg.file)
         IN cfg' = Called(Config_add_device(m, device), "add_device", device,
                          None, Config_load_devices(m).devices[1])
    /\ UNCHANGED <<control, discovery, tools, srv>>

\* manager.remove_device(name)
RemoveDevice ==
    /\ cfg.op # "idle"
    /\ \E name \in {"server", "nas"} :
         LET m == Manager(cfg.devices, cfg.file)
             r == Config_remove_device(m, name)
         IN cfg' = Called(r.m, "remove_device", name, r.ret,
                          Config_load_devices(m).devices[1])
    /\ UNCHANGED <<control, discovery, tools, srv>>

\* manager.clear_cache()
ClearCache ==
    /\ cfg.op # "idle"
    /\ cfg.devices # None
    /\ cfg' = Called(Config_clear_cache(Manager(cfg.devices, cfg.file)),
                     "clear_cache", <<>>, None, cfg.devices[1])
    /\ UNCHANGED <<control, discovery, tools, srv>>

\* manager.list_devices(): the first use after construction or clear_cache
ListDevices ==
    /\ cfg.op # "idle"
    /\ cfg.devices = None
    /\ LET m == Config_load_devices(Manager(cfg.devices, cfg.file))
       IN cfg' = Called(m, "list_devices", <<>>, None, m.devices[1])
    /\ UNCHANGED <<control, discovery, tools, srv>>

NextConfig ==
    \/ AddDevice
    \/ RemoveDevice
    \/ ClearCache
    \/ ListDevices

SpecConfig == InitConfig /\ [][NextConfig]_vars

\* what clear_cache() followed by load_devices() would return
Reloaded == Config_load_devices(Manager(None, cfg.file)).devices[1]

AddressFields == {"mac_address", "ip_address", "hostname"}

\* add_device put the device under its name and kept the other names;
\* remove_device told whether the name was there, and it is gone
CallContract ==
    /\ cfg.op = "add_device"
       => /\ cfg.devices[1] = DictSet(cfg.before, cfg.arg.name, cfg.arg)
          /\ cfg.arg.name \in DOMAIN cfg.before
             => DOMAIN cfg.devices[1] = DOMAIN cfg.before
    /\ cfg.op = "remove_device"
       => /\ cfg.ret <=> cfg.arg \in DOMAIN cfg.before
          /\ cfg.arg \notin DOMAIN cfg.devices[1]
          /\ cfg.devices[1] = DictDel(cfg.before, cfg.arg)

\* C22 as stated: after every add_device and remove_device the devices file
\* holds exactly the devices of the in-memory map: reloading returns the
\* same names with the same address fields; add_device with an existing
\* name replaces that entry; remove_device returns True iff the name was
\* present and the device is absent afterwards.
C22_FileMirrorsMemory ==
    cfg.op \in {"add_device", "remove_device"}
    => /\ DOMAIN Reloaded = DOMAIN cfg.devices[1]
       /\ \A n \in DOMAIN Reloaded : \A k \in AddressFields :
             Reloaded[n][k] = cfg.devices[1][n][k]
       /\ CallContract

\* an address field as the file keeps it: an empty string is not written
Stored(v) == IF FieldSet(v) THEN v ELSE PyNone

\* C22 amended: after every add_device and remove_device, reloading the
\* devices file returns the names of the in-memory map, each with the same
\* address fields, except that an address field holding the empty string
\* is read back as None; add_device with an existing name replaces that
\* entry; remove_device returns True iff the name was present and the
\* device is absent afterwards.
C22_FileMirrorsSetFields ==
    cfg.op \in {"add_device", "remove_device"}
    => /\ DOMAIN Reloaded = DOMAIN cfg.devices[1]
       /\ \A n \in DOMAIN Reloaded : \A k \in AddressFields :
             Reloaded[n][k] = Stored(cfg.devices[1][n][k])
       /\ CallContract

\* add_device replaced a device of the same name by one with an empty IP
\* address, next to a second device
C22_Witness ==
    /\ cfg.op = "add_device"
    /\ cfg.arg.name \in DOMAIN cfg.before
    /\ cfg.before[cfg.arg.name] # cfg.arg
    /\ cfg.arg.ip_address = PyStr("")
    /\ Cardinality(DOMAIN cfg.devices[1]) = 2
    /\ Reloaded[cfg.arg.name].ip_address = PyNone

----------------------------------------------------------------------------
(* services/http_server.py: SingleFileHandler, DirectoryHandler and        *)
(* FileServer.  A path is the sequence of its segments; str(path) is the   *)
(* sequence of its characters.                                             *)

\* the directory served, and the file served in single-file mode
BasePath == <<"srv", "pub">>
FilePath == <<"srv", "pub", "a.txt">>

\* the directories and the files of the host
Dirs ==
    { <<>>, <<"srv">>, <<"srv", "pub">>, <<"srv", "pub", "docs">>,
      <<"srv", "pub2">>, <<"etc">> }

Files ==
    { <<"srv", "pub", "a.txt">>, <<"srv", "pub", "docs", "b.txt">>,
      <<"srv", "pub2", "key">>, <<"etc", "passwd">> }

\* the characters of a path segment
SegChars(seg) ==
    CASE seg = "srv" -> <<"s", "r", "v">>
      [] seg = "pub" -> <<"p", "u", "b">>
      [] seg = "pub2" -> <<"p", "u", "b", "2">>
      [] seg = "docs" -> <<"d", "o", "c", "s">>
      [] seg = "etc" -> <<"e", "t", "c">>
      [] seg = "a.txt" -> <<"a", ".", "t", "x", "t">>
      [] seg = "b.txt" -> <<"b", ".", "t", "x", "t">>
      [] seg = "key" -> <<"k", "e", "y">>
      [] seg = "passwd" -> <<"p", "a", "s", "s", "w", "d">>
      [] OTHER -> <<"m", "i", "s", "s", "i", "n", "g">>

\* str(path) of an absolute path
PathStr(segs) ==
    IF segs = <<>> THEN <<"/">>
    ELSE Concat([i \in DOMAIN segs |-> <<"/">> \o SegChars(segs[i])])

\* s.startswith(prefix)
StartsWith(s, prefix) ==
    Len(s) >= Len(prefix) /\ SubSeq(s, 1, Len(prefix)) = prefix

\* urllib.parse.unquote on one segment of the request path: the segments
\* it stands for once the percent escapes are decoded
Unquote(seg) ==
    CASE seg = "%2e%2e" -> <<"..">>
      [] seg = "..%2F..%2Fetc" -> <<"..", "..", "etc">>
      [] OTHER -> <<seg>>

\* unquote(parsed.path), split at the slashes
RECURSIVE UnquotePath(_)
UnquotePath(segs) ==
    IF segs = <<>> THEN <<>>
    ELSE Unquote(Head(segs)) \o UnquotePath(Tail(segs))

\* Path.resolve(): "." and ".." are folded, ".." of the root is the root
RECURSIVE Resolve(_, _)
Resolve(done, segs) ==
    IF segs = <<>> THEN done
    ELSE LET s == Head(segs)
         IN Resolve(CASE s = ".." -> IF done = <<>> THEN <<>>
                                     ELSE SubSeq(done, 1, Len(done) - 1)
                      [] s \in {".", ""} -> done
                      [] OTHER -> Append(done, s),
                    Tail(segs))

\* a response: the status sent and the path whose content or listing was
\* read to build it (None when nothing was read)
Response(path, status, read) ==
    [path |-> path, status |-> status, read |-> read]

\* DirectoryHandler.do_GET for the request path /seg/seg/...
Directory_do_GET(base_path, segs) ==
    LET path == UnquotePath(segs)
        requested_path == Resolve(<<>>, base_path \o path)
    IN IF ~StartsWith(PathStr(requested_path),
                      PathStr(Resolve(<<>>, base_path)))
       THEN Response(segs, 403, None)
       ELSE IF requested_path \in Dirs
       THEN Response(segs, 200, Some(requested_path))
       ELSE IF requested_path \in Files
       THEN Response(segs, 200, Some(requested_path))
       ELSE Response(segs, 404, None)

\* the handler class built by start(): its own download_count and
\* max_downloads (None for float("inf")), and the download_count of the
\* class SingleFileHandler it derives from
HandlerClass(download_count, max_downloads, base_count) ==
    [download_count |-> download_count, max_downloads |-> max_downloads,
     base_count |-> base_count]

\* SingleFileHandler.do_GET: self.download_count is looked up on the class
\* built by start(), SingleFileHandler.download_count += 1 writes the base
\* class
SingleFile_do_GET(h, file_path, segs) ==
    IF segs # <<>> /\ segs # <<file_path[Len(file_path)]>>
    THEN [h |-> h, resp |-> Response(segs, 404, None), downloaded |-> FALSE]
    ELSE IF h.max_downloads # None /\ h.download_count >= h.max_downloads[1]
    THEN [h |-> h, resp |-> Response(segs, 410, None), downloaded |-> FALSE]
    ELSE [h |-> [h EXCEPT !.base_count = @ + 1],
          resp |-> Response(segs, 200, Some(file_path)),
          downloaded |-> TRUE]

----------------------------------------------------------------------------
(* one FileServer, its serving thread and its clients *)

\* the requests clients send during one run
MaxRequests == 2

\* the request paths of the clients, as the segments after the first slash
RequestPaths(mode) ==
    IF mode = "directory"
    THEN { <<>>, <<"a.txt">>, <<"docs">>, <<"docs", "..", "a.txt">>,
           <<"..", "pub2", "key">>, <<"%2e%2e", "pub2", "key">>,
           <<"..", "pub2">>, <<"..", "..", "etc", "passwd">>,
           <<"..%2F..%2Fetc">>, <<"missing">> }
    ELSE { <<>>, <<"a.txt">>, <<"missing">> }

\* FileServer.__init__: nothing is bound yet; `main` is where the caller
\* is, `thread` where the serving thread is, `pending` the connections not
\* accepted yet, `log` the responses sent; shutdown_request and is_shut_down
\* are the flag and the event of socketserver.BaseServer
FileServer(mode, one_shot) ==
    [mode |-> mode, one_shot |-> one_shot, main |-> "new",
     thread |-> "none", server |-> FALSE, stopped |-> FALSE,
     shutdown_request |-> FALSE, is_shut_down |-> FALSE,
     handler |-> HandlerClass(0, None, 0), download_complete |-> FALSE,
     pending |-> <<>>, log |-> <<>>, sent |-> 0]

InitServer ==
    /\ disc = DiscoveredDevice("10.0.0.5", "roku", "streaming", "",
                               Some("Roku"), "http://dev:8060/")
    /\ dev = NoDevice
    /\ last = NoCall
    /\ loop = NoLoop
    /\ probe = [p \in {"upnp", "roku"} |-> NoProbe]
    /\ found = NoFound
    /\ cache = NoCache
    /\ cmd = NoCmd
    /\ calc = NoCalc
    /\ cfg = NoCfg
    /\ \E mode \in {"file", "directory"}, one_shot \in BOOLEAN :
         /\ mode = "directory" => ~one_shot
         /\ srv = FileServer(mode, one_shot)

\* FileServer.start(): the handler class is built, the socket listens, the
\* thread is started
Start ==
    /\ srv.mode # "none"
    /\ srv.main = "new"
    /\ srv' = [srv EXCEPT
                 !.handler = HandlerClass(0, IF srv.one_shot THEN Some(1)
                                             ELSE None,
                                          srv.handler.base_count),
                 !.server = TRUE, !.thread = "loop", !.main = "serving"]
    /\ UNCHANGED <<control, discovery, tools, cfg>>

\* a client connects and sends GET path; the listening socket queues it
ClientGet ==
    /\ srv.mode # "none"
    /\ srv.main # "new"
    /\ srv.sent < MaxRequests
    /\ \E path \in RequestPaths(srv.mode) :
         srv' = [srv EXCEPT !.pending = Append(@, path), !.sent = @ + 1]
    /\ UNCHANGED <<control, discovery, tools, cfg>>

\* FileServer._serve: the test of "while not self._stopped"
ThreadLoop ==
    /\ srv.mode # "none"
    /\ srv.thread = "loop"
    /\ srv' = [srv EXCEPT !.thread = IF srv.stopped THEN "exited"
                                     ELSE "accept"]
    /\ UNCHANGED <<control, discovery, tools, cfg>>

\* self._server.handle_request(): blocks until a connection is there, then
\* runs do_GET on it
HandleRequest ==
    /\ srv.mode # "none"
    /\ srv.thread = "accept"
    /\ srv.pending # <<>>
    /\ LET segs == Head(srv.pending)
           r == IF srv.mode = "directory"
                THEN [h |-> srv.handler,
                      resp |-> Directory_do_GET(BasePath, segs),
                      downloaded |-> FALSE]
                ELSE SingleFile_do_GET(srv.handler, FilePath, segs)
       IN srv' = [srv EXCEPT
                    !.pending = Tail(@), !.log = Append(@, r.resp),
                    !.handler = r.h,
                    !.download_complete =
                        @ \/ (r.downloaded /\ srv.one_shot),
                    !.thread = "loop"]
    /\ UNCHANGED <<control, discovery, tools, cfg>>

\* FileServer.stop(): _stopped is set, then HTTPServer.shutdown() sets the
\* shutdown request and waits for the is_shut_down event, which only
\* serve_forever() sets; stop() is back when the wait is over
Stop ==
    /\ srv.mode # "none"
    /\ srv.main = "serving"
    /\ srv' = [srv EXCEPT
                 !.stopped = TRUE,
                 !.shutdown_request = srv.server,
                 !.server = IF srv.server /\ ~srv.is_shut_down THEN @
                            ELSE FALSE,
                 !.main = IF srv.server /\ ~srv.is_shut_down
                          THEN "shutdown" ELSE "stopped"]
    /\ UNCHANGED <<control, discovery, tools, cfg>>

NextServer ==
    \/ Start
    \/ ClientGet
    \/ ThreadLoop
    \/ HandleRequest
    \/ Stop

SpecServer == InitServer /\ [][NextServer]_vars

\* the serving thread is a running thread: each of its steps is taken
\* when it stays possible
SpecServerLive ==
    SpecServer /\ WF_vars(ThreadLoop) /\ WF_vars(HandleRequest)

\* the request asks for the one file of a single-file server
ForTheFile(path) == path = <<>> \/ path = <<FilePath[Len(FilePath)]>>

\* C23: a FileServer started in one-shot mode serves its file at most once:
\* after one GET for the file has been answered with 200 and the file
\* content, every later GET for it is answered 410.
C23_OneShot ==
    (srv.mode = "file" /\ srv.one_shot)
    => \A i, j \in DOMAIN srv.log :
         (/\ i < j
          /\ ForTheFile(srv.log[i].path)
          /\ srv.log[i].status = 200
          /\ ForTheFile(srv.log[j].path))
         => srv.log[j].status = 410

\* the target of a request of a directory server, resolved
Target(path) == Resolve(<<>>, BasePath \o UnquotePath(path))

\* a path is the base directory or lies below it
Inside(target) ==
    /\ Len(target) >= Len(BasePath)
    /\ SubSeq(target, 1, Len(BasePath)) = BasePath

\* C26: DirectoryHandler never serves a file or a listing located outside
\* the base directory: a request whose target resolves outside it ('..'
\* segments, percent-encoded characters, a sibling directory whose name
\* starts with the name of the base directory) is answered 403 and nothing
\* is read.
C26_StaysInBase ==
    srv.mode = "directory"
    => \A i \in DOMAIN srv.log :
         ~Inside(Target(srv.log[i].path))
         => srv.log[i].status = 403 /\ srv.log[i].read = None

\* C30: FileServer.stop(), called after start(), returns, and the serving
\* thread then leaves its request loop.
C30_StopReturns ==
    (srv.mode # "none" /\ srv.stopped)
    ~> (srv.main = "stopped" /\ srv.thread = "exited")

=============================================================================
